---- MODULE Spec2Model ----
(***************************************************************************)
(* Model of zerologlintctx: the SSA-based checker that decides whether a   *)
(* zerolog call chain carries .Ctx(ctx).                                   *)
(*                                                                         *)
(* The analysed package is an immutable value graph (prog).  Types are     *)
(* abstracted to their named type ("Event", "Logger", "Context", "ctx",    *)
(* "other"), one pointer being transparent as in typeutil.isNamedType;     *)
(* "EventCell" is the type of the cell of a *zerolog.Event variable.       *)
(* The analyzer is modelled as the pipeline of internal.RunSSA:            *)
(*   buildFunctionContextMap (pass 1, pass 2 rounds), one Checker per      *)
(*   function of the map, then the unused-directive report.                *)
(***************************************************************************)
EXTENDS Naturals, Integers, Sequences, FiniteSets, TLC

VARIABLES
    prog,       \* the package in SSA form: [nodes, funcs, srcFuncs]
    shape,      \* description of the source text prog was built from
    phase,      \* position of RunSSA: "pass1","pass2","check","unused","done"
    funcCtx,    \* buildFunctionContextMap: function id -> context name
    round,      \* number of completed pass-2 rounds
    todo,       \* functions of funcCtx not yet handed to a Checker
    diags,      \* pass.Reportf calls so far: [pos, kind, name]
    traced,     \* results of eventChainHasCtx: [pos, v, r]
    ignoreMap,  \* directive.IgnoreMap: line -> used
    crashed     \* a query overflowed the goroutine stack

vars == <<prog, shape, phase, funcCtx, round, todo, diags, traced, ignoreMap, crashed>>

(***************************************************************************)
(* Bounds of the explored inputs.                                          *)
(***************************************************************************)
MaxChain == 6      \* calls in a method chain
MaxEdges == 3      \* edges of a Phi
MaxSites == 3      \* MakeClosure instructions creating one closure
MaxReturns == 2    \* return statements of a function literal
MaxSelf == 2       \* self-referential stores to one slot
MaxDepth == 3      \* functions nested in each other
MaxStores == 3     \* plain stores to one slot

(***************************************************************************)
(* Generic helpers.                                                        *)
(***************************************************************************)
SeqToSet(s) == {s[i] : i \in 1..Len(s)}

RECURSIVE SeqsUpTo(_, _)
SeqsUpTo(S, n) ==
    IF n = 0 THEN {<<>>}
    ELSE LET prev == SeqsUpTo(S, n - 1)
         IN  prev \cup {Append(s, x) : s \in {p \in prev : Len(p) = n - 1}, x \in S}

\* the orderings of a finite set (Go ranges over a map in any order)
Perms(S) == {s \in SeqsUpTo(S, Cardinality(S)) : Len(s) = Cardinality(S) /\ SeqToSet(s) = S}

(***************************************************************************)
(* SSA data model.                                                         *)
(***************************************************************************)
\* ssa.Function: name, package path, receiver type, parameters, results,
\* lexical parent, free variables and the instructions of its blocks.
Func(name, pkg, recv, params, results) ==
    [name |-> name, pkg |-> pkg, recv |-> recv, params |-> params,
     results |-> results, parent |-> "", freeVars |-> <<>>, instrs |-> <<>>,
     file |-> "a.go"]

\* The declarations of the zerolog stub packages used by the fixtures.
ZerologFuncs ==
    ("Logger.Info"    :> Func("Info", "zerolog", "Logger", <<>>, <<"Event">>)) @@
    ("Logger.With"    :> Func("With", "zerolog", "Logger", <<>>, <<"Context">>)) @@
    ("Logger.Level"   :> Func("Level", "zerolog", "Logger", <<>>, <<"Logger">>)) @@
    ("Logger.Print"   :> Func("Print", "zerolog", "Logger", <<>>, <<>>)) @@
    ("Logger.UpdateContext" :> Func("UpdateContext", "zerolog", "Logger", <<>>, <<>>)) @@
    ("Context.Str"    :> Func("Str", "zerolog", "Context", <<>>, <<"Context">>)) @@
    ("Context.Ctx"    :> Func("Ctx", "zerolog", "Context", <<>>, <<"Context">>)) @@
    ("Context.Logger" :> Func("Logger", "zerolog", "Context", <<>>, <<"Logger">>)) @@
    ("Event.Str"      :> Func("Str", "zerolog", "Event", <<>>, <<"Event">>)) @@
    ("Event.Ctx"      :> Func("Ctx", "zerolog", "Event", <<>>, <<"Event">>)) @@
    ("Event.Msg"      :> Func("Msg", "zerolog", "Event", <<>>, <<>>)) @@
    ("zerolog.Ctx"    :> Func("Ctx", "zerolog", "none", <<>>, <<"Logger">>)) @@
    ("zerolog.New"    :> Func("New", "zerolog", "none", <<>>, <<"Logger">>)) @@
    ("log.Ctx"        :> Func("Ctx", "log", "none", <<>>, <<"Logger">>)) @@
    ("log.Info"       :> Func("Info", "log", "none", <<>>, <<"Event">>)) @@
    ("log.Print"      :> Func("Print", "log", "none", <<>>, <<>>)) @@
    \* the wrappers go/ssa synthesises for the method values e.Msg and e.Str:
    \* no package, no receiver, the receiver being the free variable
    ("Event.Msg$bound" :> Func("Msg$bound", "", "none", <<>>, <<>>)) @@
    ("Event.Str$bound" :> Func("Str$bound", "", "none", <<>>, <<"Event">>))

\* ssa.Value: one record shape for every node kind; unused fields keep
\* their zero value.
Node0 ==
    [kind |-> "", callee |-> "", args |-> <<>>, value |-> 0, x |-> 0, op |-> "",
     edges |-> <<>>, fn |-> "", bindings |-> <<>>, isNil |-> FALSE, field |-> 0,
     index |-> 0, cval |-> 0, parent |-> "", typ |-> "other"]

\* ssa.Instruction as listed in fn.Blocks[..].Instrs.
Instr0 ==
    [op |-> "", node |-> 0, callee |-> "", args |-> <<>>, value |-> 0,
     addr |-> 0, val |-> 0, results |-> <<>>, pos |-> <<0, 0>>]

\* token.Pos is modelled as <<line, column>>; Line is
\* pass.Fset.Position(pos).Line.  An ignore directive sits in column 0.
Line(pos) == pos[1]
DirectivePos(line) == <<line, 0>>

Node(v) == prog.nodes[v]
Fn(f) == prog.funcs[f]

\* Value kinds that are not ssa.Instructions (they have no block).
NonInstrKinds == {"Parameter", "FreeVar", "Const", "Global", "Function"}

(***************************************************************************)
(* typeutil                                                                *)
(***************************************************************************)
CtxMethod == "Ctx"

IsEvent(t) == t = "Event"
IsContext(t) == t = "Context"
IsLogger(t) == t = "Logger"
IsContextType(t) == t = "ctx"

IsCtxFunc(f) ==
    /\ Fn(f).name = CtxMethod
    /\ Fn(f).pkg \in {"zerolog", "log"}

returnsSingleType(f, t) == Len(Fn(f).results) = 1 /\ Fn(f).results[1] = t
ReturnsEvent(f) == returnsSingleType(f, "Event")
ReturnsLogger(f) == returnsSingleType(f, "Logger")
ReturnsContext(f) == returnsSingleType(f, "Context")
ReturnsVoid(f) == Len(Fn(f).results) = 0

\* strings.HasPrefix(name, "Print") over the names that occur in the model.
HasPrefixPrint(name) == name \in {"Print", "Printf", "Println"}

IsDirectLoggingMethod(f, recv) ==
    /\ recv # "none"
    /\ IsLogger(recv)
    /\ ReturnsVoid(f)
    /\ HasPrefixPrint(Fn(f).name)

IsDirectLoggingFunc(f) ==
    /\ Fn(f).pkg = "log"
    /\ ReturnsVoid(f)
    /\ HasPrefixPrint(Fn(f).name)

(***************************************************************************)
(* internal/ssa/tracing.go: tracer types and checkContext                  *)
(***************************************************************************)
tracerEvent == "tracerEvent"
tracerLogger == "tracerLogger"
tracerContext == "tracerContext"

\* checkResult{found, delegate, delegateTo, delegateVal}
checkResult0 == [found |-> FALSE, delegate |-> FALSE, delegateTo |-> tracerEvent, delegateVal |-> 0]
ResFound == [checkResult0 EXCEPT !.found = TRUE]
ResDelegate(t, v) == [checkResult0 EXCEPT !.delegate = TRUE, !.delegateTo = t, !.delegateVal = v]

\* variant: Ctx counts only on a Context receiver and as a package function
checkContextForEvent_NoEventCtx(call, callee, recv) ==
    IF /\ Fn(callee).name = CtxMethod
       /\ recv # "none"
       /\ IsContext(recv)
    THEN ResFound
    ELSE IF IsCtxFunc(callee) /\ recv = "none"
    THEN ResFound
    ELSE IF recv # "none" /\ IsLogger(recv) /\ ReturnsEvent(callee) /\ Len(Node(call).args) > 0
    THEN ResDelegate(tracerLogger, Node(call).args[1])
    ELSE IF recv # "none" /\ IsContext(recv) /\ ReturnsLogger(callee) /\ Len(Node(call).args) > 0
    THEN ResDelegate(tracerContext, Node(call).args[1])
    ELSE checkResult0

checkContextForEvent(call, callee, recv) ==
    IF /\ Fn(callee).name = CtxMethod
       /\ recv # "none"
       /\ (IsEvent(recv) \/ IsContext(recv))
    THEN ResFound
    ELSE IF IsCtxFunc(callee)
    THEN ResFound
    ELSE IF recv # "none" /\ IsLogger(recv) /\ ReturnsEvent(callee) /\ Len(Node(call).args) > 0
    THEN ResDelegate(tracerLogger, Node(call).args[1])
    ELSE IF recv # "none" /\ IsContext(recv) /\ ReturnsLogger(callee) /\ Len(Node(call).args) > 0
    THEN ResDelegate(tracerContext, Node(call).args[1])
    ELSE checkResult0

\* variant: zerolog.Ctx / log.Ctx is not recognised while tracing a Logger
checkContextForLogger_NoCtxFunc(call, callee, recv) ==
    IF recv # "none" /\ IsContext(recv) /\ ReturnsLogger(callee) /\ Len(Node(call).args) > 0
    THEN ResDelegate(tracerContext, Node(call).args[1])
    ELSE IF recv # "none" /\ IsLogger(recv) /\ ReturnsContext(callee) /\ Len(Node(call).args) > 0
    THEN ResDelegate(tracerLogger, Node(call).args[1])
    ELSE checkResult0

\* variant: the Logger tracer answers by the Event tracer's rules
checkContextForLogger_EventRules(call, callee, recv) ==
    IF Fn(callee).name = CtxMethod /\ recv # "none" /\ (IsEvent(recv) \/ IsContext(recv))
    THEN ResFound
    ELSE IF IsCtxFunc(callee) THEN ResFound
    ELSE IF recv # "none" /\ IsLogger(recv) /\ ReturnsEvent(callee) /\ Len(Node(call).args) > 0
    THEN ResDelegate(tracerLogger, Node(call).args[1])
    ELSE IF recv # "none" /\ IsContext(recv) /\ ReturnsLogger(callee) /\ Len(Node(call).args) > 0
    THEN ResDelegate(tracerContext, Node(call).args[1])
    ELSE checkResult0

checkContextForLogger(call, callee, recv) ==
    IF IsCtxFunc(callee)
    THEN ResFound
    ELSE IF recv # "none" /\ IsContext(recv) /\ ReturnsLogger(callee) /\ Len(Node(call).args) > 0
    THEN ResDelegate(tracerContext, Node(call).args[1])
    ELSE IF recv # "none" /\ IsLogger(recv) /\ ReturnsContext(callee) /\ Len(Node(call).args) > 0
    THEN ResDelegate(tracerLogger, Node(call).args[1])
    ELSE checkResult0

\* variant: Context.Ctx is not recognised while tracing a Context
checkContextForContext_NoCtxMethod(call, callee, recv) ==
    IF recv # "none" /\ IsLogger(recv) /\ ReturnsContext(callee) /\ Len(Node(call).args) > 0
    THEN ResDelegate(tracerLogger, Node(call).args[1])
    ELSE checkResult0

checkContextForContext(call, callee, recv) ==
    IF Fn(callee).name = CtxMethod /\ recv # "none" /\ IsContext(recv)
    THEN ResFound
    ELSE IF recv # "none" /\ IsLogger(recv) /\ ReturnsContext(callee) /\ Len(Node(call).args) > 0
    THEN ResDelegate(tracerLogger, Node(call).args[1])
    ELSE checkResult0

checkContext(call, callee, recv, t) ==
    CASE t = tracerEvent -> checkContextForEvent(call, callee, recv)
      [] t = tracerLogger -> checkContextForLogger(call, callee, recv)
      [] t = tracerContext -> checkContextForContext(call, callee, recv)
      [] OTHER -> checkResult0

\* variant: the first argument is followed also when the callee has no
\* receiver
shouldContinueOnReceiver_Any(recv, t) ==
    IF recv = "none" THEN TRUE
    ELSE CASE t = tracerEvent -> IsEvent(recv)
           [] t = tracerLogger -> IsLogger(recv)
           [] t = tracerContext -> IsContext(recv)
           [] OTHER -> FALSE

shouldContinueOnReceiver(recv, t) ==
    IF recv = "none" THEN FALSE
    ELSE CASE t = tracerEvent -> IsEvent(recv)
           [] t = tracerLogger -> IsLogger(recv)
           [] t = tracerContext -> IsContext(recv)
           [] OTHER -> FALSE

(***************************************************************************)
(* Small helpers of tracing.go                                             *)
(***************************************************************************)
WrapperKinds ==
    {"Extract", "MakeInterface", "TypeAssert", "FieldAddr", "Field",
     "IndexAddr", "Index", "Lookup"}

\* unwrapInner: the inner value of a wrapper, 0 for nil.
unwrapInner(v) == IF Node(v).kind \in WrapperKinds THEN Node(v).x ELSE 0

isNilConst(v) == Node(v).kind = "Const" /\ Node(v).isNil

\* variant: two field or index addresses of one base always match
addressesMatch_AnyCell(a, b) ==
    IF a = b THEN TRUE
    ELSE IF Node(a).kind = "FieldAddr" /\ Node(b).kind = "FieldAddr"
    THEN Node(a).x = Node(b).x
    ELSE IF Node(a).kind = "IndexAddr" /\ Node(b).kind = "IndexAddr"
    THEN Node(a).x = Node(b).x
    ELSE FALSE

addressesMatch(a, b) ==
    IF a = b THEN TRUE
    ELSE IF Node(a).kind = "FieldAddr" /\ Node(b).kind = "FieldAddr"
    THEN Node(a).x = Node(b).x /\ Node(a).field = Node(b).field
    ELSE IF /\ Node(a).kind = "IndexAddr" /\ Node(b).kind = "IndexAddr"
            /\ Node(a).x = Node(b).x
            /\ Node(Node(a).index).kind = "Const"
            /\ Node(Node(b).index).kind = "Const"
    THEN Node(Node(a).index).cval = Node(Node(b).index).cval
    ELSE FALSE

\* edgeLeadsToImpl mutates seen; the pair [r, seen] is what the caller sees.
RECURSIVE edgeLeadsToImpl(_, _, _)
RECURSIVE edgeLeadsToEdges(_, _, _, _)
edgeLeadsToImpl(v, target, seen) ==
    IF v = target THEN [r |-> TRUE, seen |-> seen]
    ELSE IF v \in seen THEN [r |-> FALSE, seen |-> seen]
    ELSE LET seen1 == seen \cup {v}
         IN  CASE Node(v).kind = "Call" ->
                    IF Len(Node(v).args) > 0
                    THEN edgeLeadsToImpl(Node(v).args[1], target, seen1)
                    ELSE [r |-> FALSE, seen |-> seen1]
               [] Node(v).kind = "Phi" ->
                    edgeLeadsToEdges(Node(v).edges, 1, target, seen1)
               [] OTHER ->
                    IF unwrapInner(v) # 0
                    THEN edgeLeadsToImpl(unwrapInner(v), target, seen1)
                    ELSE [r |-> FALSE, seen |-> seen1]

\* the "for _, edge := range val.Edges" loop of edgeLeadsToImpl
edgeLeadsToEdges(edges, i, target, seen) ==
    IF i > Len(edges) THEN [r |-> FALSE, seen |-> seen]
    ELSE LET Rest(e) == IF e.r THEN e ELSE edgeLeadsToEdges(edges, i + 1, target, e.seen)
         IN  Rest(edgeLeadsToImpl(edges[i], target, seen))

edgeLeadsTo(edge, target, visited) == edgeLeadsToImpl(edge, target, visited).r

(***************************************************************************)
(* Store tracking.  valueLoadsFrom keeps no visited set: when a call of    *)
(* valueLoadsFrom(v, addr) needs valueLoadsFrom(v, addr) again the         *)
(* recursion never returns and the goroutine stack overflows.  The third   *)
(* argument records the active frames to recognise exactly that case.      *)
(***************************************************************************)
RECURSIVE valueLoadsFromRec(_, _, _)
RECURSIVE valueLoadsFromEdges(_, _, _, _)
valueLoadsFromRec(v, addr, frames) ==
    IF v \in frames THEN [r |-> FALSE, crash |-> TRUE]
    ELSE LET fr == frames \cup {v}
         IN  CASE Node(v).kind = "UnOp" ->
                    IF Node(v).op = "MUL" /\ addressesMatch(Node(v).x, addr)
                    THEN [r |-> TRUE, crash |-> FALSE]
                    ELSE valueLoadsFromRec(Node(v).x, addr, fr)
               [] Node(v).kind = "Call" ->
                    IF Len(Node(v).args) > 0
                    THEN valueLoadsFromRec(Node(v).args[1], addr, fr)
                    ELSE [r |-> FALSE, crash |-> FALSE]
               [] Node(v).kind = "Phi" ->
                    valueLoadsFromEdges(Node(v).edges, 1, addr, fr)
               [] OTHER -> [r |-> FALSE, crash |-> FALSE]

valueLoadsFromEdges(edges, i, addr, frames) ==
    IF i > Len(edges) THEN [r |-> FALSE, crash |-> FALSE]
    ELSE LET Rest(e) == IF e.crash \/ e.r THEN e
                        ELSE valueLoadsFromEdges(edges, i + 1, addr, frames)
         IN  Rest(valueLoadsFromRec(edges[i], addr, frames))

valueLoadsFrom(v, addr) == valueLoadsFromRec(v, addr, {})

\* variant: a store is kept also when its value loads from the address
RECURSIVE findAllStoredValuesFrom_NoSkip(_, _, _)
findAllStoredValuesFrom_NoSkip(instrs, i, addr) ==
    IF i > Len(instrs) THEN [vals |-> <<>>, crash |-> FALSE]
    ELSE LET ins == instrs[i]
             Keep(rest) ==
                 IF ins.op = "Store" /\ addressesMatch(ins.addr, addr)
                 THEN [vals |-> <<ins.val>> \o rest.vals, crash |-> rest.crash]
                 ELSE rest
         IN  Keep(findAllStoredValuesFrom_NoSkip(instrs, i + 1, addr))

\* findAllStoredValues: [vals, crash]; vals in block order.
RECURSIVE findAllStoredValuesFrom(_, _, _)
findAllStoredValuesFrom(instrs, i, addr) ==
    IF i > Len(instrs) THEN [vals |-> <<>>, crash |-> FALSE]
    ELSE LET ins == instrs[i]
             Keep(self, rest) ==
                 IF ins.op = "Store" /\ addressesMatch(ins.addr, addr)
                 THEN IF self.crash THEN [vals |-> <<>>, crash |-> TRUE]
                      ELSE IF self.r THEN rest
                      ELSE [vals |-> <<ins.val>> \o rest.vals, crash |-> rest.crash]
                 ELSE rest
         IN  Keep(IF ins.op = "Store" /\ addressesMatch(ins.addr, addr)
                  THEN valueLoadsFrom(ins.val, addr)
                  ELSE [r |-> FALSE, crash |-> FALSE],
                  findAllStoredValuesFrom(instrs, i + 1, addr))

findAllStoredValues(addr) ==
    IF Node(addr).kind \in NonInstrKinds \/ Node(addr).parent = ""
    THEN [vals |-> <<>>, crash |-> FALSE]
    ELSE findAllStoredValuesFrom(Fn(Node(addr).parent).instrs, 1, addr)

(***************************************************************************)
(* traceValue and its helpers.  The Go code passes the visited map by      *)
(* reference, so every function returns [r, vis, crash]: its boolean, the  *)
(* visited map as the caller finds it afterwards, and whether the          *)
(* evaluation overflowed the stack.                                        *)
(***************************************************************************)
Res(r, vis) == [r |-> r, vis |-> vis, crash |-> FALSE]
Crash(vis) == [r |-> FALSE, vis |-> vis, crash |-> TRUE]

\* index of fv in fn.FreeVars, 0 when absent (idx < 0 in the Go code)
FreeVarIndex(fv, fn) ==
    LET hits == {i \in 1..Len(Fn(fn).freeVars) : Fn(fn).freeVars[i] = fv}
    IN  IF hits = {} THEN 0 ELSE CHOOSE i \in hits : \A j \in hits : i <= j

RECURSIVE traceValue(_, _, _)
RECURSIVE traceCommon(_, _, _)
RECURSIVE tracePhiEdges(_, _, _, _, _)
RECURSIVE traceUnOp(_, _, _)
RECURSIVE traceAlloc(_, _, _)
RECURSIVE traceAllStoredValuesFrom(_, _, _, _)
RECURSIVE traceFreeVarFrom(_, _, _, _, _, _)
RECURSIVE traceReceiver(_, _, _)
RECURSIVE traceIIFEReturnsFrom(_, _, _, _, _)

\* variant: an edge without ctx is passed over instead of deciding the Phi
RECURSIVE tracePhiEdges_Any(_, _, _, _, _)
tracePhiEdges_Any(phi, i, hasValidEdge, visited, t) ==
    IF i > Len(Node(phi).edges) THEN Res(hasValidEdge, visited)
    ELSE LET edge == Node(phi).edges[i]
         IN  IF edgeLeadsTo(edge, phi, visited)
             THEN tracePhiEdges_Any(phi, i + 1, hasValidEdge, visited, t)
             ELSE IF isNilConst(edge)
             THEN tracePhiEdges_Any(phi, i + 1, hasValidEdge, visited, t)
             ELSE LET Rest(e) == IF e.crash THEN Crash(visited)
                                 ELSE tracePhiEdges_Any(phi, i + 1, hasValidEdge \/ e.r,
                                                        visited, t)
                  IN  Rest(traceValue(edge, t, visited))

\* variant: the edges are traced on one visited map, not on copies
RECURSIVE tracePhiEdges_Shared(_, _, _, _, _)
tracePhiEdges_Shared(phi, i, hasValidEdge, visited, t) ==
    IF i > Len(Node(phi).edges) THEN Res(hasValidEdge, visited)
    ELSE LET edge == Node(phi).edges[i]
         IN  IF edgeLeadsTo(edge, phi, visited)
             THEN tracePhiEdges_Shared(phi, i + 1, hasValidEdge, visited, t)
             ELSE IF isNilConst(edge)
             THEN tracePhiEdges_Shared(phi, i + 1, hasValidEdge, visited, t)
             ELSE LET Rest(e) == IF e.crash THEN Crash(e.vis)
                                 ELSE IF ~e.r THEN Res(FALSE, e.vis)
                                 ELSE tracePhiEdges_Shared(phi, i + 1, TRUE, e.vis, t)
                  IN  Rest(traceValue(edge, t, visited))

\* variant: a nil edge is traced like any other edge
RECURSIVE tracePhiEdges_NilTraced(_, _, _, _, _)
tracePhiEdges_NilTraced(phi, i, hasValidEdge, visited, t) ==
    IF i > Len(Node(phi).edges) THEN Res(hasValidEdge, visited)
    ELSE LET edge == Node(phi).edges[i]
         IN  IF edgeLeadsTo(edge, phi, visited)
             THEN tracePhiEdges_NilTraced(phi, i + 1, hasValidEdge, visited, t)
             ELSE LET Rest(e) == IF e.crash THEN Crash(visited)
                                 ELSE IF ~e.r THEN Res(FALSE, visited)
                                 ELSE tracePhiEdges_NilTraced(phi, i + 1, TRUE, visited, t)
                  IN  Rest(traceValue(edge, t, visited))

\* the loop of tracePhi from edge i on
tracePhiEdges(phi, i, hasValidEdge, visited, t) ==
    IF i > Len(Node(phi).edges) THEN Res(hasValidEdge, visited)
    ELSE LET edge == Node(phi).edges[i]
         IN  IF edgeLeadsTo(edge, phi, visited)
             THEN tracePhiEdges(phi, i + 1, hasValidEdge, visited, t)
             ELSE IF isNilConst(edge)
             THEN tracePhiEdges(phi, i + 1, hasValidEdge, visited, t)
             ELSE LET Rest(e) == IF e.crash THEN Crash(visited)
                                 ELSE IF ~e.r THEN Res(FALSE, visited)
                                 ELSE tracePhiEdges(phi, i + 1, TRUE, visited, t)
                  IN  Rest(traceValue(edge, t, visited))  \* on maps.Clone(visited)

\* variant: a Phi none of whose edges is traced has ctx
tracePhi_Vacuous(phi, visited, t) == tracePhiEdges(phi, 1, TRUE, visited, t)

tracePhi(phi, visited, t) ==
    IF Len(Node(phi).edges) = 0 THEN Res(FALSE, visited)
    ELSE tracePhiEdges(phi, 1, FALSE, visited, t)

\* the loop of traceAllStoredValues from store i on
traceAllStoredValuesFrom(storedValues, i, visited, t) ==
    IF i > Len(storedValues) THEN Res(TRUE, visited)
    ELSE LET Rest(e) == IF e.crash THEN Crash(visited)
                        ELSE IF ~e.r THEN Res(FALSE, visited)
                        ELSE traceAllStoredValuesFrom(storedValues, i + 1, visited, t)
         IN  Rest(traceValue(storedValues[i], t, visited))  \* on maps.Clone(visited)

\* variant: only the first store to the address counts
traceAllStoredValues_First(storedValues, visited, t) ==
    IF Len(storedValues) = 0 THEN Res(TRUE, visited)
    ELSE LET Rest(e) == IF e.crash THEN Crash(visited) ELSE Res(e.r, visited)
         IN  Rest(traceValue(storedValues[1], t, visited))

traceAllStoredValues(storedValues, visited, t) ==
    traceAllStoredValuesFrom(storedValues, 1, visited, t)

traceUnOp(unop, visited, t) ==
    LET With(stored) ==
            IF stored.crash THEN Crash(visited)
            ELSE IF Len(stored.vals) > 0 THEN traceAllStoredValues(stored.vals, visited, t)
            ELSE traceValue(Node(unop).x, t, visited)
    IN  With(IF Node(unop).op = "MUL" THEN findAllStoredValues(Node(unop).x)
             ELSE [vals |-> <<>>, crash |-> FALSE])

\* variant: a variable nothing is stored to counts as having ctx
traceAlloc_Optimistic(alloc, visited, t) ==
    LET With(stored) ==
            IF stored.crash THEN Crash(visited)
            ELSE IF Len(stored.vals) > 0 THEN traceAllStoredValues(stored.vals, visited, t)
            ELSE Res(TRUE, visited)
    IN  With(findAllStoredValues(alloc))

traceAlloc(alloc, visited, t) ==
    LET With(stored) ==
            IF stored.crash THEN Crash(visited)
            ELSE IF Len(stored.vals) > 0 THEN traceAllStoredValues(stored.vals, visited, t)
            ELSE Res(FALSE, visited)
    IN  With(findAllStoredValues(alloc))

\* the loop of traceFreeVar over the instructions of the parent function
traceFreeVarFrom(fn, idx, instrs, i, visited, t) ==
    IF i > Len(instrs) THEN Res(FALSE, visited)
    ELSE LET ins == instrs[i]
         IN  IF /\ ins.op = "MakeClosure"
                /\ Node(ins.node).fn = fn
                /\ idx <= Len(Node(ins.node).bindings)
             THEN LET Rest(e) == IF e.crash \/ e.r THEN e
                                 ELSE traceFreeVarFrom(fn, idx, instrs, i + 1, e.vis, t)
                  IN  Rest(traceValue(Node(ins.node).bindings[idx], t, visited))
             ELSE traceFreeVarFrom(fn, idx, instrs, i + 1, visited, t)

traceFreeVar(fv, visited, t) ==
    LET fn == Node(fv).parent
    IN  IF fn = "" THEN Res(FALSE, visited)
        ELSE IF FreeVarIndex(fv, fn) = 0 THEN Res(FALSE, visited)
        ELSE IF Fn(fn).parent = "" THEN Res(FALSE, visited)
        ELSE traceFreeVarFrom(fn, FreeVarIndex(fv, fn), Fn(Fn(fn).parent).instrs, 1, visited, t)

\* variant: a call without argument to follow counts as carrying ctx
traceReceiver_Open(call, visited, t) ==
    IF Len(Node(call).args) > 0
    THEN traceValue(Node(call).args[1], t, visited)
    ELSE Res(TRUE, visited)

traceReceiver(call, visited, t) ==
    IF Len(Node(call).args) > 0
    THEN traceValue(Node(call).args[1], t, visited)
    ELSE Res(FALSE, visited)

\* the loop of traceIIFEReturns over the instructions of fn
traceIIFEReturnsFrom(instrs, i, hasReturn, visited, t) ==
    IF i > Len(instrs) THEN Res(hasReturn, visited)
    ELSE LET ins == instrs[i]
         IN  IF ins.op # "Return" \/ Len(ins.results) = 0
             THEN traceIIFEReturnsFrom(instrs, i + 1, hasReturn, visited, t)
             ELSE LET Rest(e) == IF e.crash THEN Crash(visited)
                                 ELSE IF ~e.r THEN Res(FALSE, visited)
                                 ELSE traceIIFEReturnsFrom(instrs, i + 1, TRUE, visited, t)
                  IN  Rest(traceValue(ins.results[1], t, visited))  \* on maps.Clone(visited)

traceIIFEReturns(fn, visited, t) ==
    IF Len(Fn(fn).results) = 0 THEN Res(FALSE, visited)
    ELSE IF ~(\/ IsEvent(Fn(fn).results[1])
              \/ IsLogger(Fn(fn).results[1])
              \/ IsContext(Fn(fn).results[1]))
    THEN Res(FALSE, visited)
    ELSE traceIIFEReturnsFrom(Fn(fn).instrs, 1, FALSE, visited, t)

traceCommon(v, visited, t) ==
    CASE Node(v).kind = "Phi" -> tracePhi(v, visited, t)
      [] Node(v).kind = "UnOp" -> traceUnOp(v, visited, t)
      [] Node(v).kind = "Alloc" -> traceAlloc(v, visited, t)
      [] Node(v).kind = "FreeVar" -> traceFreeVar(v, visited, t)
      [] OTHER ->
            IF unwrapInner(v) # 0
            THEN traceValue(unwrapInner(v), t, visited)
            ELSE Res(FALSE, visited)

traceValue(v, t, visited) ==
    IF v \in visited THEN Res(FALSE, visited)
    ELSE LET vis == visited \cup {v}
             callee == Node(v).callee
         IN  IF Node(v).kind # "Call" THEN traceCommon(v, vis, t)
             ELSE IF callee = "" THEN traceReceiver(v, vis, t)
             ELSE LET recv == Fn(callee).recv
                      With(iife, result) ==
                          IF iife.crash THEN iife
                          ELSE IF iife.r THEN Res(TRUE, vis)
                          ELSE IF result.found THEN Res(TRUE, vis)
                          ELSE IF result.delegate
                          THEN traceValue(result.delegateVal, result.delegateTo, vis)
                          ELSE IF shouldContinueOnReceiver(recv, t)
                          THEN traceReceiver(v, vis, t)
                          ELSE Res(FALSE, vis)
                  IN  With(IF Node(v).value # 0 /\ Node(Node(v).value).kind = "MakeClosure"
                           THEN traceIIFEReturns(callee, vis, t)
                           ELSE Res(FALSE, vis),
                           checkContext(v, callee, recv, t))

(***************************************************************************)
(* internal/directive/ignore.go                                            *)
(***************************************************************************)
\* A comment is [line, text]; its text is the sequence of its words and
\* blanks, "//" or "/*" first.
TrimPrefix(s, prefix) == IF Len(s) > 0 /\ s[1] = prefix THEN Tail(s) ELSE s

RECURSIVE TrimSpace(_)
TrimSpace(s) ==
    IF Len(s) > 0 /\ s[1] = " " THEN TrimSpace(Tail(s))
    ELSE IF Len(s) > 0 /\ s[Len(s)] = " " THEN TrimSpace(SubSeq(s, 1, Len(s) - 1))
    ELSE s

isIgnoreComment(text) ==
    LET HasPrefix(t) == Len(t) > 0 /\ t[1] = "zerologlintctx:ignore"
    IN  HasPrefix(TrimSpace(TrimPrefix(text, "//")))

\* BuildIgnoreMap: line |-> used, for the comments of one file
BuildIgnoreMap(comments) ==
    [l \in {c.line : c \in {d \in comments : isIgnoreComment(d.text)}} |-> FALSE]

\* variant: an entry that is already used withholds nothing more
ShouldIgnore_Once(m, line) ==
    IF line \in DOMAIN m /\ ~m[line]
    THEN [ignore |-> TRUE, m |-> [m EXCEPT ![line] = TRUE]]
    ELSE IF (line - 1) \in DOMAIN m /\ ~m[line - 1]
    THEN [ignore |-> TRUE, m |-> [m EXCEPT ![line - 1] = TRUE]]
    ELSE [ignore |-> FALSE, m |-> m]

\* variant: the entries of line and line - 1 are both marked
ShouldIgnore_Both(m, line) ==
    LET hit == {line, line - 1} \cap DOMAIN m
    IN  [ignore |-> hit # {}, m |-> [l \in DOMAIN m |-> m[l] \/ l \in hit]]

\* variant: the line below the call counts as well
ShouldIgnore_Below(m, line) ==
    IF line \in DOMAIN m
    THEN [ignore |-> TRUE, m |-> [m EXCEPT ![line] = TRUE]]
    ELSE IF (line - 1) \in DOMAIN m
    THEN [ignore |-> TRUE, m |-> [m EXCEPT ![line - 1] = TRUE]]
    ELSE IF (line + 1) \in DOMAIN m
    THEN [ignore |-> TRUE, m |-> [m EXCEPT ![line + 1] = TRUE]]
    ELSE [ignore |-> FALSE, m |-> m]

\* ShouldIgnore: [ignore, m] - the answer and the map with its used marks.
ShouldIgnore(m, line) ==
    IF line \in DOMAIN m
    THEN [ignore |-> TRUE, m |-> [m EXCEPT ![line] = TRUE]]
    ELSE IF (line - 1) \in DOMAIN m
    THEN [ignore |-> TRUE, m |-> [m EXCEPT ![line - 1] = TRUE]]
    ELSE [ignore |-> FALSE, m |-> m]

\* variant: every directive counts as unused
GetUnusedIgnores_All(m) == DOMAIN m

\* GetUnusedIgnores: the directive lines whose entry is not used.
GetUnusedIgnores(m) == {l \in DOMAIN m : ~m[l]}

(***************************************************************************)
(* internal/ssa/checker.go.  A Checker is the record                       *)
(*   [ctxName, reported, diags, traced, ignoreMap, crashed];               *)
(* diags, traced and ignoreMap outlive it (they belong to the pass).       *)
(***************************************************************************)
MissingPropagation == "zerolog call chain missing .Ctx"
BypassCall == "zerolog direct logging bypasses context"
UnusedIgnore == "unused zerologlintctx:ignore directive"

NewChecker(ctxName) ==
    [ctxName |-> ctxName, reported |-> {}, diags |-> diags, traced |-> traced,
     ignoreMap |-> ignoreMap, crashed |-> FALSE]

reportKind(c, pos, kind) ==
    IF pos \in c.reported THEN c
    ELSE LET With(c1, ig) ==
                 IF ig.ignore THEN [c1 EXCEPT !.ignoreMap = ig.m]
                 ELSE [c1 EXCEPT !.diags =
                          Append(@, [pos |-> pos, kind |-> kind, name |-> c.ctxName])]
         IN  With([c EXCEPT !.reported = @ \cup {pos}],
                  ShouldIgnore(c.ignoreMap, Line(pos)))

report(c, pos) == reportKind(c, pos, MissingPropagation)

reportDirectLogging(c, pos) == reportKind(c, pos, BypassCall)

\* eventChainHasCtx, with the outcome of the query recorded in traced
eventChainHasCtx(v) == traceValue(v, tracerEvent, {})

\* variant: the values of the earlier queries of the function stay visited
checkChain_SharedVisited(c, v, pos) ==
    LET With(q) ==
            IF q.crash THEN [c EXCEPT !.crashed = TRUE]
            ELSE IF q.r THEN [c EXCEPT !.traced = @ \cup {[pos |-> pos, v |-> v, r |-> TRUE]}]
            ELSE report([c EXCEPT !.traced = @ \cup {[pos |-> pos, v |-> v, r |-> FALSE]}],
                        pos)
    IN  With(traceValue(v, tracerEvent, {q.v : q \in c.traced}))

\* common tail of the three terminator checks: trace v, report on failure
checkChain(c, v, pos) ==
    LET With(q) ==
            IF q.crash THEN [c EXCEPT !.crashed = TRUE]
            ELSE IF q.r THEN [c EXCEPT !.traced = @ \cup {[pos |-> pos, v |-> v, r |-> TRUE]}]
            ELSE report([c EXCEPT !.traced = @ \cup {[pos |-> pos, v |-> v, r |-> FALSE]}],
                        pos)
    IN  With(eventChainHasCtx(v))

\* checkDeferredCall(d): ins is the *ssa.Defer
checkDeferredCall(c, ins) ==
    IF ins.callee = "" THEN c
    ELSE IF \/ Fn(ins.callee).recv = "none"
            \/ ~IsEvent(Fn(ins.callee).recv)
            \/ ~ReturnsVoid(ins.callee)
    THEN c
    ELSE IF Len(ins.args) > 0 THEN checkChain(c, ins.args[1], ins.pos)
    ELSE report(c, ins.pos)

\* variant: the first binding is traced whatever its type
checkBoundMethodTerminator_AnyType(c, ins, mc, callee) ==
    IF ~ReturnsVoid(callee) THEN c
    ELSE IF Len(Node(mc).bindings) = 0 THEN c
    ELSE checkChain(c, Node(mc).bindings[1], ins.pos)

checkBoundMethodTerminator(c, ins, mc, callee) ==
    IF ~ReturnsVoid(callee) THEN c
    ELSE IF Len(Node(mc).bindings) = 0 THEN c
    ELSE IF ~IsEvent(Node(Node(mc).bindings[1]).typ) THEN c
    ELSE checkChain(c, Node(mc).bindings[1], ins.pos)

checkTerminatorCall(c, ins) ==
    LET call == Node(ins.node)
    IN  IF call.callee = "" THEN c
        ELSE IF call.value # 0 /\ Node(call.value).kind = "MakeClosure"
        THEN checkBoundMethodTerminator(c, ins, call.value, call.callee)
        ELSE IF \/ Fn(call.callee).recv = "none"
                \/ ~IsEvent(Fn(call.callee).recv)
                \/ ~ReturnsVoid(call.callee)
        THEN c
        ELSE IF Len(call.args) > 0 THEN checkChain(c, call.args[1], ins.pos)
        ELSE report(c, ins.pos)

\* variant: a Print on a Logger that carries ctx is let through
checkDirectLoggingCall_Traced(c, ins) ==
    LET call == Node(ins.node)
    IN  IF call.callee = "" THEN c
        ELSE IF IsDirectLoggingMethod(call.callee, Fn(call.callee).recv)
        THEN IF Len(call.args) > 0 /\ traceValue(call.args[1], tracerLogger, {}).r
             THEN c
             ELSE reportDirectLogging(c, ins.pos)
        ELSE IF IsDirectLoggingFunc(call.callee)
        THEN reportDirectLogging(c, ins.pos)
        ELSE c

checkDirectLoggingCall(c, ins) ==
    LET call == Node(ins.node)
    IN  IF call.callee = "" THEN c
        ELSE IF IsDirectLoggingMethod(call.callee, Fn(call.callee).recv)
        THEN reportDirectLogging(c, ins.pos)
        ELSE IF IsDirectLoggingFunc(call.callee)
        THEN reportDirectLogging(c, ins.pos)
        ELSE c

\* the instruction loop of CheckFunction from instruction i on; a stack
\* overflow ends the process, so nothing is checked after it
RECURSIVE CheckFunctionFrom(_, _, _)
CheckFunctionFrom(c, instrs, i) ==
    IF i > Len(instrs) \/ c.crashed THEN c
    ELSE LET ins == instrs[i]
             Then(ct) == IF ct.crashed THEN ct ELSE checkDirectLoggingCall(ct, ins)
         IN  CheckFunctionFrom(
                 CASE ins.op = "Call" -> Then(checkTerminatorCall(c, ins))
                   [] ins.op = "Defer" -> checkDeferredCall(c, ins)
                   [] OTHER -> c,
                 instrs, i + 1)

CheckFunction(c, fn) == CheckFunctionFrom(c, Fn(fn).instrs, 1)

(***************************************************************************)
(* internal/analyzer.go                                                    *)
(***************************************************************************)
\* variant: the last context.Context parameter is taken
findContextInParams_Last(fn) ==
    LET ps == Fn(fn).params
        hits == {i \in 1..Len(ps) : IsContextType(ps[i].type)}
    IN  IF hits = {} THEN ""
        ELSE ps[CHOOSE i \in hits : \A j \in hits : i >= j].name

\* findContextInParams: the name of the first context.Context parameter,
\* "" for nil
findContextInParams(fn) ==
    LET ps == Fn(fn).params
        hits == {i \in 1..Len(ps) : IsContextType(ps[i].type)}
    IN  IF hits = {} THEN ""
        ELSE ps[CHOOSE i \in hits : \A j \in hits : i <= j].name

\* variant: a function without context.Context parameter is entered too
RECURSIVE FirstPassFrom_All(_, _)
FirstPassFrom_All(m, i) ==
    IF i > Len(prog.srcFuncs) THEN m
    ELSE FirstPassFrom_All((prog.srcFuncs[i] :> findContextInParams(prog.srcFuncs[i])) @@ m,
                           i + 1)

\* "First pass" of buildFunctionContextMap over SrcFuncs from index i on
RECURSIVE FirstPassFrom(_, _)
FirstPassFrom(m, i) ==
    IF i > Len(prog.srcFuncs) THEN m
    ELSE LET fn == prog.srcFuncs[i]
         IN  IF findContextInParams(fn) # ""
             THEN FirstPassFrom((fn :> findContextInParams(fn)) @@ m, i + 1)
             ELSE FirstPassFrom(m, i + 1)

\* one round of the "second pass" loop: [m, changed]
RECURSIVE SecondPassRoundFrom(_, _, _)
SecondPassRoundFrom(m, changed, i) ==
    IF i > Len(prog.srcFuncs) THEN [m |-> m, changed |-> changed]
    ELSE LET fn == prog.srcFuncs[i]
         IN  IF fn \in DOMAIN m THEN SecondPassRoundFrom(m, changed, i + 1)
             ELSE IF Fn(fn).parent # "" /\ Fn(fn).parent \in DOMAIN m
             THEN SecondPassRoundFrom((fn :> m[Fn(fn).parent]) @@ m, TRUE, i + 1)
             ELSE SecondPassRoundFrom(m, changed, i + 1)

\* buildFunctionContextMap, first pass
FindDirect ==
    /\ phase = "pass1"
    /\ funcCtx' = FirstPassFrom(funcCtx, 1)
    /\ phase' = "pass2"
    /\ UNCHANGED <<prog, shape, round, todo, diags, traced, ignoreMap, crashed>>

\* buildFunctionContextMap, one iteration of the outer loop of the second
\* pass; the map is returned when nothing changed
Propagate ==
    /\ phase = "pass2"
    /\ LET After(rd) ==
               /\ funcCtx' = rd.m
               /\ round' = round + 1
               /\ IF rd.changed
                  THEN /\ phase' = "pass2"
                       /\ todo' = todo
                  ELSE /\ phase' = "check"
                       /\ todo' = DOMAIN rd.m
       IN  After(SecondPassRoundFrom(funcCtx, FALSE, 1))
    /\ UNCHANGED <<prog, shape, diags, traced, ignoreMap, crashed>>

\* RunSSA: one iteration of "for fn, info := range funcCtx" (Go map order)
CheckNext ==
    /\ phase = "check"
    /\ todo # {}
    /\ \E fn \in todo :
         /\ todo' = todo \ {fn}
         /\ IF Fn(fn).file \in prog.skipFiles
            THEN UNCHANGED <<diags, traced, ignoreMap, crashed, phase>>
            ELSE LET After(c) ==
                         /\ diags' = c.diags
                         /\ traced' = c.traced
                         /\ ignoreMap' = c.ignoreMap
                         /\ crashed' = c.crashed
                         /\ phase' = IF c.crashed THEN "done" ELSE phase
                 IN  After(CheckFunction(NewChecker(funcCtx[fn]), fn))
    /\ UNCHANGED <<prog, shape, funcCtx, round>>

\* RunSSA: "Report unused ignore directives"
ReportUnused ==
    /\ phase = "check"
    /\ todo = {}
    /\ \E order \in Perms(GetUnusedIgnores(ignoreMap)) :
         diags' = diags \o [i \in 1..Len(order) |->
                              [pos |-> DirectivePos(order[i]), kind |-> UnusedIgnore, name |-> ""]]
    /\ phase' = "done"
    /\ UNCHANGED <<prog, shape, funcCtx, round, todo, traced, ignoreMap, crashed>>

Next == FindDirect \/ Propagate \/ CheckNext \/ ReportUnused

(***************************************************************************)
(* Inputs.  Every input is the SSA form of a small source text, described  *)
(* by shape; the builders below emit the nodes and instructions that       *)
(* go/ssa produces for it.                                                 *)
(***************************************************************************)
Prog0 == [nodes |-> <<>>, funcs |-> ZerologFuncs, srcFuncs |-> <<>>, skipFiles |-> {}]

\* a source function with its parameters; instructions are added later
UserFunc(name, params, results, parent) ==
    [Func(name, "user", "none", params, results) EXCEPT !.parent = parent]

AddFunc(P, f, rec) == [P EXCEPT !.funcs = (f :> rec) @@ @, !.srcFuncs = Append(@, f)]
AddNode(P, n) == [P EXCEPT !.nodes = Append(@, n)]
AddInstr(P, f, ins) == [P EXCEPT !.funcs[f].instrs = Append(@, ins)]
LastNode(P) == Len(P.nodes)

Param(f, typ) == [Node0 EXCEPT !.kind = "Parameter", !.parent = f, !.typ = typ]
ResultType(callee) == IF Len(ZerologFuncs[callee].results) = 0 THEN "other"
                      ELSE ZerologFuncs[callee].results[1]

\* t = callee(args...) at pos, a value and an instruction of f
AddCall(P, f, callee, args, pos) ==
    AddInstr(AddNode(P, [Node0 EXCEPT !.kind = "Call", !.callee = callee, !.args = args,
                                      !.parent = f, !.typ = ResultType(callee)]),
             f, [Instr0 EXCEPT !.op = "Call", !.node = LastNode(P) + 1, !.pos = pos])

\* the type a pointer of type typ points to
Deref(typ) == IF typ = "EventCell" THEN "Event" ELSE typ

\* t = *x
AddLoad(P, f, x) ==
    AddInstr(AddNode(P, [Node0 EXCEPT !.kind = "UnOp", !.op = "MUL", !.x = x,
                                      !.parent = f, !.typ = Deref(P.nodes[x].typ)]),
             f, [Instr0 EXCEPT !.op = "UnOp", !.node = LastNode(P) + 1])

\* t = phi [edges...]
AddPhi(P, f, edges, typ) ==
    AddInstr(AddNode(P, [Node0 EXCEPT !.kind = "Phi", !.edges = edges,
                                      !.parent = f, !.typ = typ]),
             f, [Instr0 EXCEPT !.op = "Phi", !.node = LastNode(P) + 1])

\* t = new T
AddAlloc(P, f, typ) ==
    AddInstr(AddNode(P, [Node0 EXCEPT !.kind = "Alloc", !.parent = f, !.typ = typ]),
             f, [Instr0 EXCEPT !.op = "Alloc", !.node = LastNode(P) + 1])

\* t = &x.field
AddFieldAddr(P, f, x, field) ==
    AddInstr(AddNode(P, [Node0 EXCEPT !.kind = "FieldAddr", !.x = x, !.field = field,
                                      !.parent = f]),
             f, [Instr0 EXCEPT !.op = "FieldAddr", !.node = LastNode(P) + 1])

\* *addr = val
AddStore(P, f, addr, val) ==
    AddInstr(P, f, [Instr0 EXCEPT !.op = "Store", !.addr = addr, !.val = val])

\* defer value(args...) / defer callee(args...) at pos
AddDefer(P, f, callee, value, args, pos) ==
    AddInstr(P, f, [Instr0 EXCEPT !.op = "Defer", !.callee = callee, !.value = value,
                                  !.args = args, !.pos = pos])

\* return results...
AddReturn(P, f, results) ==
    AddInstr(P, f, [Instr0 EXCEPT !.op = "Return", !.results = results])

\* a variable of the enclosing function captured by fn
AddFreeVar(P, fn, typ) ==
    [AddNode(P, [Node0 EXCEPT !.kind = "FreeVar", !.parent = fn, !.typ = typ])
        EXCEPT !.funcs[fn].freeVars = Append(@, LastNode(P) + 1)]

\* t = make closure fn [bindings...]
AddMakeClosure(P, f, fn, bindings) ==
    AddInstr(AddNode(P, [Node0 EXCEPT !.kind = "MakeClosure", !.fn = fn,
                                      !.bindings = bindings, !.parent = f]),
             f, [Instr0 EXCEPT !.op = "MakeClosure", !.node = LastNode(P) + 1])

\* a function literal without free variables used as a value
AddFunctionValue(P, fn) == AddNode(P, [Node0 EXCEPT !.kind = "Function", !.fn = fn])

\* t = value(args...) where value is a closure or a function literal
AddCallValue(P, f, callee, value, args, typ, pos) ==
    AddInstr(AddNode(P, [Node0 EXCEPT !.kind = "Call", !.callee = callee, !.value = value,
                                      !.args = args, !.parent = f, !.typ = typ]),
             f, [Instr0 EXCEPT !.op = "Call", !.node = LastNode(P) + 1, !.pos = pos])

\* the methods a chain can continue with, by the type of the value so far
NextOps(typ) ==
    CASE typ = "Logger" -> {"Logger.Info", "Logger.With", "Logger.Level"}
      [] typ = "Context" -> {"Context.Str", "Context.Ctx", "Context.Logger"}
      [] typ = "Event" -> {"Event.Str", "Event.Ctx"}
      [] OTHER -> {}

\* the well-typed method chains of at most n calls on a value of type typ
RECURSIVE Chains(_, _)
Chains(typ, n) ==
    IF n = 0 THEN {<<>>}
    ELSE {<<>>} \cup UNION {{<<op>> \o c : c \in Chains(ResultType(op), n - 1)} : op \in NextOps(typ)}

RECURSIVE ChainType(_, _)
ChainType(typ, ops) == IF ops = <<>> THEN typ ELSE ChainType(ResultType(ops[1]), Tail(ops))

\* the roots of a chain: where its first receiver comes from
Roots == {"param.Logger", "param.Event", "zerolog.Ctx", "log.Ctx", "zerolog.New", "log.Info"}
RootType(root) == IF root \in {"param.Event", "log.Info"} THEN "Event" ELSE "Logger"

\* emit the root value; ctx is the node of the ctx parameter
AddRoot(P, f, root, ctx, line) ==
    CASE root = "param.Logger" -> AddNode(P, Param(f, "Logger"))
      [] root = "param.Event" -> AddNode(P, Param(f, "Event"))
      [] root \in {"zerolog.Ctx", "log.Ctx"} ->
            AddLoad(AddCall(P, f, root, <<ctx>>, <<line, 0>>), f, LastNode(P) + 1)
      [] OTHER -> AddCall(P, f, root, <<>>, <<line, 0>>)

\* emit recv.op1().op2()... ; call i of the chain sits at column col0 + i
RECURSIVE AddChainOn(_, _, _, _, _, _, _)
AddChainOn(P, f, recv, ops, ctx, line, col0) ==
    IF ops = <<>> THEN P
    ELSE AddChainOn(AddCall(P, f, ops[1],
                            IF ZerologFuncs[ops[1]].name = CtxMethod
                            THEN <<recv, ctx>> ELSE <<recv>>,
                            <<line, col0 + 1>>),
                    f, LastNode(P) + 1, Tail(ops), ctx, line, col0 + 1)

\* the chain on the value emitted last
AddChain(P, f, ops, ctx, line, col0) == AddChainOn(P, f, LastNode(P), ops, ctx, line, col0)

\* the statement that ends a chain, by the type of the chain's value
Terms(typ) ==
    CASE typ = "Event" -> {"Event.Msg"}
      [] typ = "Logger" -> {"Logger.Print", "Logger.UpdateContext"}
      [] OTHER -> {"log.Print"}

\* the statement ending the chain whose value is the last node of P
AddTerm(P, f, term, pos) ==
    AddCall(P, f, term, IF term = "log.Print" THEN <<>> ELSE <<LastNode(P)>>, pos)

\* where the ending statement of the fixtures sits: line 10, column 50
TermPos == <<10, 50>>

\* func F(ctx context.Context, ...) { root.ops...term("x") }
ChainProg(sh) ==
    AddTerm(
      AddChain(
        AddRoot(
          AddNode(
            AddFunc(Prog0, "F", UserFunc("F", <<[name |-> "ctx", type |-> "ctx"]>>, <<>>, "")),
            Param("F", "ctx")),
          "F", sh.root, 1, TermPos[1]),
        "F", sh.ops, 1, TermPos[1], 0),
      "F", sh.term, TermPos)

\* the chain statements: every root, every well-typed chain on it and every
\* statement that can end it
ChainShapes ==
    UNION {UNION {{[fam |-> "chain", root |-> r, ops |-> o, term |-> t] :
                      t \in Terms(ChainType(RootType(r), o))} :
                  o \in Chains(RootType(r), MaxChain)} :
           r \in Roots}

InitRun ==
    /\ phase = "pass1"
    /\ funcCtx = <<>>
    /\ round = 0
    /\ todo = {}
    /\ diags = <<>>
    /\ traced = {}
    /\ crashed = FALSE

InitChain ==
    /\ shape \in ChainShapes
    /\ prog = ChainProg(shape)
    /\ ignoreMap = <<>>
    /\ InitRun

SpecChain == InitChain /\ [][Next]_vars

(***************************************************************************)
(* Conditional assignment:                                                 *)
(*   func F(ctx, logger) { e0 := logger.Info()                             *)
(*                         var e; if .. { e = <edge 1> } else { e = .. }   *)
(*                         e.Msg("x") }                                    *)
(* and the same for a Logger variable, ended by l.Info().Msg("x").  An     *)
(* edge is a chain on the shared value ("S") or on the root Logger ("B").  *)
(***************************************************************************)
PhiEdgeKinds(role) ==
    IF role = "Event"
    THEN {[on |-> "S", ops |-> <<>>],
          [on |-> "S", ops |-> <<"Event.Str">>],
          [on |-> "S", ops |-> <<"Event.Ctx">>],
          [on |-> "B", ops |-> <<"Logger.Info">>],
          [on |-> "B", ops |-> <<"Logger.Info", "Event.Ctx">>]}
    ELSE {[on |-> "B", ops |-> <<>>],
          [on |-> "B", ops |-> <<"Logger.Level">>],
          [on |-> "B", ops |-> <<"Logger.With", "Context.Logger">>],
          [on |-> "B", ops |-> <<"Logger.With", "Context.Ctx", "Context.Logger">>]}

\* node of the root Logger and of the shared value
PhiBase(sh) == IF sh.root = "param.Logger" THEN 2 ELSE 3
PhiShared(sh) == IF sh.role = "Event" THEN PhiBase(sh) + 1 ELSE PhiBase(sh)
PhiStart(sh, e) == IF e.on = "S" THEN PhiShared(sh) ELSE PhiBase(sh)

\* the nodes the edges from i on evaluate to, the first new node being next
RECURSIVE PhiEdgeNodes(_, _, _)
PhiEdgeNodes(sh, i, next) ==
    IF i > Len(sh.edges) THEN <<>>
    ELSE <<IF sh.edges[i].ops = <<>> THEN PhiStart(sh, sh.edges[i])
           ELSE next + Len(sh.edges[i].ops) - 1>>
         \o PhiEdgeNodes(sh, i + 1, next + Len(sh.edges[i].ops))

RECURSIVE AddPhiEdges(_, _, _)
AddPhiEdges(P, sh, i) ==
    IF i > Len(sh.edges) THEN P
    ELSE AddPhiEdges(AddChainOn(P, "F", PhiStart(sh, sh.edges[i]), sh.edges[i].ops,
                                1, TermPos[1], 10 * i),
                     sh, i + 1)

PhiProg(sh) ==
    AddTerm(
      AddChain(
        AddPhi(
          AddPhiEdges(
            AddChain(
              AddRoot(
                AddNode(
                  AddFunc(Prog0, "F",
                          UserFunc("F", <<[name |-> "ctx", type |-> "ctx"]>>, <<>>, "")),
                  Param("F", "ctx")),
                "F", sh.root, 1, TermPos[1]),
              "F", IF sh.role = "Event" THEN <<"Logger.Info">> ELSE <<>>, 1, TermPos[1], 0),
            sh, 1),
          "F", PhiEdgeNodes(sh, 1, PhiShared(sh) + 1), sh.role),
        "F", IF sh.role = "Event" THEN <<>> ELSE <<"Logger.Info">>, 1, TermPos[1], 40),
      "F", "Event.Msg", TermPos)

PhiShapes ==
    UNION {UNION {{[fam |-> "phi", root |-> r, role |-> ro, edges |-> es] :
                      es \in {q \in SeqsUpTo(PhiEdgeKinds(ro), MaxEdges) : Len(q) >= 2}} :
                  ro \in {"Event", "Logger"}} :
           r \in {"param.Logger", "zerolog.Ctx"}}

InitPhi ==
    /\ shape \in PhiShapes
    /\ prog = PhiProg(shape)
    /\ ignoreMap = <<>>
    /\ InitRun

SpecPhi == InitPhi /\ [][Next]_vars

\* func F(ctx context.Context, logger zerolog.Logger): nodes 1 and 2
ProgF ==
    AddNode(
      AddNode(
        AddFunc(Prog0, "F", UserFunc("F", <<[name |-> "ctx", type |-> "ctx"],
                                            [name |-> "logger", type |-> "Logger"]>>,
                                     <<>>, "")),
        Param("F", "ctx")),
      Param("F", "Logger"))

(***************************************************************************)
(* Captured Event:                                                         *)
(*   func F(ctx, logger) { e := <site>; f := func() { e.Msg("x") } ... }   *)
(* with one MakeClosure instruction per site creating the closure F$1.     *)
(***************************************************************************)
SiteKinds ==
    {<<"Logger.Info">>,
     <<"Logger.Info", "Event.Ctx">>,
     <<"Logger.Info", "Event.Str">>,
     <<"Logger.Info", "Event.Ctx", "Event.Str">>,
     <<"Logger.With", "Context.Ctx", "Context.Logger", "Logger.Info">>}

\* e := logger.<site>; make closure F$1 [&e].  A captured variable lives
\* in a cell: t = new *Event (e); *t = <site>; make closure F$1 [t]
RECURSIVE AddSites(_, _, _)
AddSites(P, sites, i) ==
    IF i > Len(sites) THEN P
    ELSE AddSites(
           AddMakeClosure(
             AddStore(
               AddChainOn(AddAlloc(P, "F", "EventCell"), "F", 2, sites[i], 1,
                          TermPos[1] - 1, 10 * i),
               "F", LastNode(P) + 1, LastNode(P) + 1 + Len(sites[i])),
             "F", "F$1", <<LastNode(P) + 1>>),
           sites, i + 1)

\* node 3 is the free variable e of F$1, node 4 its load: (*e).Msg("x")
ClosureProg(sh) ==
    AddSites(
      AddCall(
        AddLoad(
          AddFreeVar(AddFunc(ProgF, "F$1", UserFunc("F$1", <<>>, <<>>, "F")), "F$1",
                     "EventCell"),
          "F$1", 3),
        "F$1", "Event.Msg", <<4>>, TermPos),
      sh.sites, 1)

ClosureShapes ==
    {[fam |-> "closure", sites |-> q] :
        q \in {q \in SeqsUpTo(SiteKinds, MaxSites) : Len(q) >= 1}}

InitClosure ==
    /\ shape \in ClosureShapes
    /\ prog = ClosureProg(shape)
    /\ ignoreMap = <<>>
    /\ InitRun

SpecClosure == InitClosure /\ [][Next]_vars

(***************************************************************************)
(* Immediately invoked function literal:                                   *)
(*   func F(ctx, logger) {                                                 *)
(*       func() *zerolog.Event { if .. { return <r1> }; return <r2> }()    *)
(*           .Msg("x") }                                                   *)
(* The literal captures logger and ctx (a closure), or takes them as       *)
(* parameters (no free variables: a plain function value).  A return       *)
(* "nested" returns the result of a literal invoked inside the literal.    *)
(***************************************************************************)
ReturnKinds == {"plain", "ctx", "ambient"}

ReturnOps(kind) ==
    IF kind = "ctx" THEN <<"Logger.Info", "Event.Ctx">> ELSE <<"Logger.Info">>

LiteralParams(captures) ==
    IF captures THEN <<>>
    ELSE <<[name |-> "l", type |-> "Logger"], [name |-> "c", type |-> "ctx"]>>

InnerName(g) == g \o "$1"

\* The literal g inside par, its invocation being the last node emitted.
\* lgAddr, lgVal and c are the address of the Logger variable, its value
\* and ctx as seen in par.  The first new nodes of g are its two free
\* variables, or its two parameters.
RECURSIVE AddLiteral(_, _, _, _, _, _, _, _)
RECURSIVE AddReturns(_, _, _, _, _, _, _)
AddLiteral(P, par, g, lgAddr, lgVal, c, rets, sh) ==
    LET Close(Q) ==
            IF sh.captures
            THEN AddCallValue(AddMakeClosure(Q, par, g, <<lgAddr, c>>),
                              par, g, LastNode(Q) + 1, <<>>, "Event", <<TermPos[1], 1>>)
            ELSE AddCallValue(AddFunctionValue(Q, g),
                              par, g, LastNode(Q) + 1, <<lgVal, c>>, "Event", <<TermPos[1], 1>>)
    IN  Close(
          IF sh.captures
          THEN AddReturns(
                 AddFreeVar(
                   AddFreeVar(
                     AddFunc(P, g, UserFunc(g, <<>>, <<"Event">>, par)),
                     g, "Logger"),
                   g, "ctx"),
                 g, rets, 1, LastNode(P) + 1, LastNode(P) + 2, sh)
          ELSE AddReturns(
                 AddNode(
                   AddNode(
                     AddFunc(P, g, UserFunc(g, LiteralParams(FALSE), <<"Event">>, par)),
                     Param(g, "Logger")),
                   Param(g, "ctx")),
                 g, rets, 1, LastNode(P) + 1, LastNode(P) + 2, sh))

\* the return statements of g from i on; lg is the Logger of g: the free
\* variable (an address, loaded for every use) or the parameter
AddReturns(P, g, rets, i, lg, c, sh) ==
    IF i > Len(rets) THEN P
    ELSE LET Ret(Q) == AddReturn(Q, g, <<LastNode(Q)>>)
         IN  AddReturns(
               Ret(CASE rets[i] = "nested" ->
                          AddLiteral(P, g, InnerName(g), lg, lg, c, sh.inner, sh)
                     [] rets[i] = "ambient" ->
                          AddChain(AddRoot(P, g, "zerolog.Ctx", c, TermPos[1]),
                                   g, <<"Logger.Info">>, c, TermPos[1], 0)
                     [] OTHER ->
                          IF sh.captures
                          THEN AddChain(AddLoad(P, g, lg), g, ReturnOps(rets[i]), c,
                                        TermPos[1], 0)
                          ELSE AddChainOn(P, g, lg, ReturnOps(rets[i]), c, TermPos[1], 0)),
               g, rets, i + 1, lg, c, sh)

\* node 3 is the cell of logger in F
IIFEProg(sh) ==
    AddTerm(
      AddChain(
        AddLiteral(AddStore(AddAlloc(ProgF, "F", "Logger"), "F", 3, 2),
                   "F", "F$1", 3, 2, 1, sh.returns, sh),
        "F", sh.tail, 1, TermPos[1], 40),
      "F", "Event.Msg", TermPos)

\* at most one of the returns is "nested"
ReturnSeqs ==
    {q \in SeqsUpTo(ReturnKinds \cup {"nested"}, MaxReturns) :
        Cardinality({i \in 1..Len(q) : q[i] = "nested"}) <= 1}

IIFEShapes ==
    UNION {UNION {{[fam |-> "iife", captures |-> cp, returns |-> rs, inner |-> inn,
                    tail |-> tl] :
                      inn \in IF "nested" \in SeqToSet(rs)
                              THEN SeqsUpTo(ReturnKinds, MaxReturns) ELSE {<<>>}} :
                  rs \in ReturnSeqs} :
           <<cp, tl>> \in BOOLEAN \X {<<>>, <<"Event.Str">>}}

InitIIFE ==
    /\ shape \in IIFEShapes
    /\ prog = IIFEProg(shape)
    /\ ignoreMap = <<>>
    /\ InitRun

SpecIIFE == InitIIFE /\ [][Next]_vars

(***************************************************************************)
(* Event kept in a slot:                                                   *)
(*   func F(ctx, logger) { e := logger.Info()        <- init               *)
(*                         for .. { e = e.Str() }    <- carried            *)
(*                         p := &x; *p = e           <- slot "ptr"         *)
(*                         for .. { *p = p->Str() }     <- selfs           *)
(*                         p->Msg("x") }                                   *)
(* slot "field" keeps it in h.ev instead, slot "none" ends with e.Msg;     *)
(* p->m() stands for the method m called on the value p points to.         *)
(***************************************************************************)
\* the value stored first: the init chain, or the Phi of the loop around it
StoredFirst(sh) == IF sh.carried THEN 2 + Len(sh.init) + 1 ELSE 2 + Len(sh.init)

\* e = phi [init, e.Str()]; the Phi comes before the call it depends on
AddCarried(P, sh) ==
    IF sh.carried
    THEN AddCall(AddPhi(P, "F", <<LastNode(P), LastNode(P) + 2>>, "Event"),
                 "F", "Event.Str", <<LastNode(P) + 1>>, <<TermPos[1], 20>>)
    ELSE P

\* the address of the slot, h being its Alloc: h itself or a fresh &h.ev
AddSlotAddr(P, sh, h) == IF sh.slot = "field" THEN AddFieldAddr(P, "F", h, 0) ELSE P
SlotAddr(P, sh, h) == IF sh.slot = "field" THEN LastNode(P) + 1 ELSE h

\* *slot = val
AddSlotStore(P, sh, h, val) == AddStore(AddSlotAddr(P, sh, h), "F", SlotAddr(P, sh, h), val)

\* t = *slot
AddSlotLoad(P, sh, h) == AddLoad(AddSlotAddr(P, sh, h), "F", SlotAddr(P, sh, h))

\* *slot = slot->op(...)
AddSelfStore(P, sh, h, op) ==
    LET Put(Q) == AddSlotStore(Q, sh, h, LastNode(Q))
        Apply(Q) == AddCall(Q, "F", op,
                            IF ZerologFuncs[op].name = CtxMethod
                            THEN <<LastNode(Q), 1>> ELSE <<LastNode(Q)>>,
                            <<TermPos[1], 30>>)
    IN  Put(Apply(AddSlotLoad(P, sh, h)))

RECURSIVE AddSelfStores(_, _, _, _)
AddSelfStores(P, sh, h, i) ==
    IF i > Len(sh.selfs) THEN P
    ELSE AddSelfStores(AddSelfStore(P, sh, h, sh.selfs[i]), sh, h, i + 1)

\* the slot, its stores and the final load
AddSlot(P, sh) ==
    IF sh.slot = "none" THEN P
    ELSE AddSlotLoad(
           AddSelfStores(
             AddSlotStore(AddAlloc(P, "F", IF sh.slot = "field" THEN "other" ELSE "EventCell"),
                          sh, LastNode(P) + 1, StoredFirst(sh)),
             sh, LastNode(P) + 1, 1),
           sh, LastNode(P) + 1)

StoreProg(sh) ==
    LET Msg(Q) ==
            AddCall(Q, "F", "Event.Msg",
                    <<IF sh.slot = "none" THEN StoredFirst(sh) ELSE LastNode(Q)>>, TermPos)
    IN  Msg(AddSlot(AddCarried(AddChainOn(ProgF, "F", 2, sh.init, 1, TermPos[1], 0), sh), sh))

StoreShapes ==
    UNION {{[fam |-> "store", slot |-> sl, init |-> in, carried |-> ca, selfs |-> ss] :
               ss \in IF sl = "none" THEN {<<>>}
                      ELSE SeqsUpTo({"Event.Str", "Event.Ctx"}, MaxSelf)} :
           <<sl, in, ca>> \in {"none", "ptr", "field"}
                                \X {<<"Logger.Info">>, <<"Logger.Info", "Event.Ctx">>}
                                \X BOOLEAN}

InitStore ==
    /\ shape \in StoreShapes
    /\ prog = StoreProg(shape)
    /\ ignoreMap = <<>>
    /\ InitRun

SpecStore == InitStore /\ [][Next]_vars

(***************************************************************************)
(* Nested function literals, each logging with the global logger:          *)
(*   func F(<params 1>) { log.Info().Msg("1"); log.Print("1")              *)
(*       func(<params 2>) { log.Info().Msg("2"); log.Print("2")            *)
(*           func(<params 3>) { log.Info().Msg("3"); log.Print("3") }() }() } *)
(* srcFuncs lists the functions in the order shape.order.                  *)
(***************************************************************************)
ParamKinds == {"none", "one", "two", "late"}

RECURSIVE LevelName(_)
LevelName(k) == IF k = 1 THEN "F" ELSE LevelName(k - 1) \o "$1"

LevelParams(k, kind) ==
    CASE kind = "one" -> <<[name |-> "ctx" \o ToString(k), type |-> "ctx"]>>
      [] kind = "two" -> <<[name |-> "a" \o ToString(k), type |-> "ctx"],
                           [name |-> "b" \o ToString(k), type |-> "ctx"]>>
      [] kind = "late" -> <<[name |-> "logger", type |-> "Logger"],
                            [name |-> "ctx" \o ToString(k), type |-> "ctx"]>>
      [] OTHER -> <<>>

\* where the terminator of level k sits, and its log.Print
LevelPos(k) == <<TermPos[1] + k, TermPos[2]>>
PrintPos(k) == <<TermPos[1] + k, TermPos[2] + 20>>

RECURSIVE AddLevels(_, _, _)
AddLevels(P, sh, i) ==
    IF i > Len(sh.order) THEN P
    ELSE AddLevels(
           AddTerm(
             AddTerm(
               AddCall(
                 AddFunc(P, LevelName(sh.order[i]),
                         UserFunc(LevelName(sh.order[i]),
                                  LevelParams(sh.order[i], sh.kinds[sh.order[i]]), <<>>,
                                  IF sh.order[i] = 1 THEN "" ELSE LevelName(sh.order[i] - 1))),
                 LevelName(sh.order[i]), "log.Info", <<>>, <<TermPos[1] + sh.order[i], 1>>),
               LevelName(sh.order[i]), "Event.Msg", LevelPos(sh.order[i])),
             LevelName(sh.order[i]), "log.Print", PrintPos(sh.order[i])),
           sh, i + 1)

NestProg(sh) == AddLevels(Prog0, sh, 1)

NestShapes ==
    UNION {UNION {{[fam |-> "nest", kinds |-> ks, order |-> o] : o \in Perms(1..n)} :
                  ks \in [1..n -> ParamKinds]} :
           n \in 1..MaxDepth}

InitNest ==
    /\ shape \in NestShapes
    /\ prog = NestProg(shape)
    /\ ignoreMap = <<>>
    /\ InitRun

SpecNest == InitNest /\ [][Next]_vars

(***************************************************************************)
(* Uses of an Event:                                                       *)
(*   func F(ctx, logger) { e := logger.<init>; <use> }                     *)
(*     call        e.Msg("x")                                              *)
(*     defer       defer e.Msg("x")                                        *)
(*     bound       msg := e.Msg; msg("x")                                  *)
(*     deferBound  msg := e.Msg; defer msg("x")                            *)
(*     boundStr    s := e.Str; s("k", "v")                                 *)
(*     literal     func() { e.Msg("x") }()                                 *)
(*     dyn         wrap(e).Msg("x")            wrap a func-typed parameter *)
(*     dyn0        provider.GetEvent().Msg("x")    provider an interface   *)
(*     helper      decorate(e).Msg("x")                                    *)
(*     helperCtx   createEventWithCtx(ctx, logger).Msg("x")                *)
(*     twice       e.Msg("x"); e.Msg("y")                                  *)
(* The statement under test sits at TermPos, the call before it and the    *)
(* Msg inside the literal at InnerPos.                                     *)
(***************************************************************************)
UseKinds ==
    {"call", "defer", "bound", "deferBound", "boundStr", "literal",
     "dyn", "dyn0", "helper", "helperCtx", "twice"}

InnerPos == <<TermPos[1], TermPos[2] - 10>>

\* func decorate(e *zerolog.Event) *zerolog.Event { return e.Str("k", "v") }
AddDecorate(P) ==
    AddReturn(
      AddCall(
        AddNode(
          AddFunc(P, "decorate",
                  UserFunc("decorate", <<[name |-> "e", type |-> "Event"]>>, <<"Event">>, "")),
          Param("decorate", "Event")),
        "decorate", "Event.Str", <<LastNode(P) + 1>>, <<TermPos[1] + 10, 1>>),
      "decorate", <<LastNode(P) + 2>>)

\* func createEventWithCtx(ctx context.Context, logger zerolog.Logger) *zerolog.Event {
\*     return logger.Info().Ctx(ctx) }
AddCreateEventWithCtx(P) ==
    AddReturn(
      AddChainOn(
        AddNode(
          AddNode(
            AddFunc(P, "createEventWithCtx",
                    UserFunc("createEventWithCtx",
                             <<[name |-> "ctx", type |-> "ctx"],
                               [name |-> "logger", type |-> "Logger"]>>, <<"Event">>, "")),
            Param("createEventWithCtx", "ctx")),
          Param("createEventWithCtx", "Logger")),
        "createEventWithCtx", LastNode(P) + 2, <<"Logger.Info", "Event.Ctx">>,
        LastNode(P) + 1, TermPos[1] + 10, 0),
      "createEventWithCtx", <<LastNode(P) + 4>>)

\* the use of the Event e, the last node of P
AddUse(P, use, e) ==
    CASE use = "call" -> AddCall(P, "F", "Event.Msg", <<e>>, TermPos)
      [] use = "defer" -> AddDefer(P, "F", "Event.Msg", 0, <<e>>, TermPos)
      [] use = "bound" ->
            AddCallValue(AddMakeClosure(P, "F", "Event.Msg$bound", <<e>>),
                         "F", "Event.Msg$bound", e + 1, <<>>, "other", TermPos)
      [] use = "deferBound" ->
            AddDefer(AddMakeClosure(P, "F", "Event.Msg$bound", <<e>>),
                     "F", "Event.Msg$bound", e + 1, <<>>, TermPos)
      [] use = "boundStr" ->
            AddCallValue(AddMakeClosure(P, "F", "Event.Str$bound", <<e>>),
                         "F", "Event.Str$bound", e + 1, <<>>, "Event", TermPos)
      [] use = "literal" ->
            \* e lives in the cell e + 1; F$1 has the free variable e + 2
            AddCallValue(
              AddMakeClosure(
                AddCall(
                  AddLoad(
                    AddFreeVar(
                      AddFunc(AddStore(AddAlloc(P, "F", "EventCell"), "F", e + 1, e),
                              "F$1", UserFunc("F$1", <<>>, <<>>, "F")),
                      "F$1", "EventCell"),
                    "F$1", e + 2),
                  "F$1", "Event.Msg", <<e + 3>>, InnerPos),
                "F", "F$1", <<e + 1>>),
              "F", "F$1", e + 5, <<>>, "other", TermPos)
      [] use = "dyn" ->
            AddCall(
              AddCallValue(AddNode(P, Param("F", "other")), "F", "", e + 1, <<e>>, "Event",
                           InnerPos),
              "F", "Event.Msg", <<e + 2>>, TermPos)
      [] use = "dyn0" ->
            AddCall(
              AddCallValue(AddNode(P, Param("F", "other")), "F", "", e + 1, <<>>, "Event",
                           InnerPos),
              "F", "Event.Msg", <<e + 2>>, TermPos)
      [] use = "twice" ->
            AddCall(AddCall(P, "F", "Event.Msg", <<e>>, InnerPos),
                    "F", "Event.Msg", <<e>>, TermPos)
      [] use = "helper" ->
            AddCall(
              AddCallValue(P, "F", "decorate", 0, <<e>>, "Event", InnerPos),
              "F", "Event.Msg", <<e + 1>>, TermPos)
      [] OTHER ->
            AddCall(
              AddCallValue(P, "F", "createEventWithCtx", 0, <<1, 2>>, "Event", InnerPos),
              "F", "Event.Msg", <<e + 1>>, TermPos)

\* F is declared first: nodes 1 and 2 are its ctx and logger
UseProg(sh) ==
    LET Use(Q) == AddUse(Q, sh.use, LastNode(Q))
    IN  Use(AddChainOn(AddCreateEventWithCtx(AddDecorate(ProgF)), "F", 2, sh.init, 1,
                       TermPos[1], 0))

UseShapes ==
    {[fam |-> "use", init |-> in, use |-> u] : in \in SiteKinds, u \in UseKinds}

InitUse ==
    /\ shape \in UseShapes
    /\ prog = UseProg(shape)
    /\ ignoreMap = <<>>
    /\ InitRun

SpecUse == InitUse /\ [][Next]_vars

(***************************************************************************)
(* Event variable assigned nil, in a loop, or on a branch:                 *)
(*   func F(ctx, logger) { var e *zerolog.Event        <- "nil"            *)
(*                         if .. { e = logger.Info().Ctx(ctx) }  <- "ctx"  *)
(*                         if .. { e = logger.Info() }      <- "plain"     *)
(*                         for .. { e = e.Str() }           <- "back"      *)
(*                         for .. { e = e.Ctx(ctx) }        <- "backCtx"   *)
(*                         for .. { }                       <- "self"      *)
(*                         for .. { if .. { e = logger.Info() }            *)
(*                                  e = e.Str() }           <- "nested"    *)
(*                         e.Msg("x") }                                    *)
(* The edges that do not depend on the Phi come first, then the Phi, then  *)
(* the calls on the Phi.  A "nested" edge is e.Str() on the Phi of the     *)
(* loop body, whose edges are the Phi of the loop and the fresh Event;     *)
(* with "nestedCtx" the fresh Event is logger.Info().Ctx(ctx).             *)
(***************************************************************************)
\* the nodes the edges from i on add before the Phi
RECURSIVE AddJoinForward(_, _, _)
AddJoinForward(P, es, i) ==
    IF i > Len(es) THEN P
    ELSE AddJoinForward(
           CASE es[i] = "nil" ->
                  AddNode(P, [Node0 EXCEPT !.kind = "Const", !.isNil = TRUE,
                                           !.typ = "Event"])
             [] es[i] = "ctx" ->
                  AddChainOn(P, "F", 2, <<"Logger.Info", "Event.Ctx">>, 1, TermPos[1], 10 * i)
             [] es[i] = "plain" ->
                  AddChainOn(P, "F", 2, <<"Logger.Info">>, 1, TermPos[1], 10 * i)
             [] OTHER -> P,
           es, i + 1)

\* the calls on the Phi the edges from i on add after it
RECURSIVE AddJoinBack(_, _, _, _)
AddJoinBack(P, es, i, phi) ==
    IF i > Len(es) THEN P
    ELSE AddJoinBack(
           CASE es[i] = "back" ->
                  AddCall(P, "F", "Event.Str", <<phi>>, <<TermPos[1], 10 * i>>)
             [] es[i] = "backCtx" ->
                  AddCall(P, "F", "Event.Ctx", <<phi, 1>>, <<TermPos[1], 10 * i>>)
             [] es[i] \in {"nested", "nestedCtx"} ->
                  LET Str(Q) == AddCall(Q, "F", "Event.Str", <<LastNode(Q)>>,
                                        <<TermPos[1], 10 * i + 5>>)
                      Body(Q) == Str(AddPhi(Q, "F", <<phi, LastNode(Q)>>, "Event"))
                  IN  Body(AddChainOn(P, "F", 2,
                                      IF es[i] = "nested" THEN <<"Logger.Info">>
                                      ELSE <<"Logger.Info", "Event.Ctx">>,
                                      1, TermPos[1], 10 * i))
             [] OTHER -> P,
           es, i + 1, phi)

\* the nodes the edges from i on evaluate to: fwd is the last node before
\* edge i, phi the Phi and back the last call on the Phi before edge i
RECURSIVE JoinEdgeNodes(_, _, _, _, _)
JoinEdgeNodes(es, i, fwd, phi, back) ==
    IF i > Len(es) THEN <<>>
    ELSE CASE es[i] \in {"nil", "plain"} ->
                <<fwd + 1>> \o JoinEdgeNodes(es, i + 1, fwd + 1, phi, back)
           [] es[i] = "ctx" ->
                <<fwd + 2>> \o JoinEdgeNodes(es, i + 1, fwd + 2, phi, back)
           [] es[i] = "self" ->
                <<phi>> \o JoinEdgeNodes(es, i + 1, fwd, phi, back)
           [] es[i] = "nested" ->
                <<back + 3>> \o JoinEdgeNodes(es, i + 1, fwd, phi, back + 3)
           [] es[i] = "nestedCtx" ->
                <<back + 4>> \o JoinEdgeNodes(es, i + 1, fwd, phi, back + 4)
           [] OTHER ->
                <<back + 1>> \o JoinEdgeNodes(es, i + 1, fwd, phi, back + 1)

JoinProg(sh) ==
    LET Msg(Q, phi) == AddCall(AddJoinBack(Q, sh.edges, 1, phi), "F", "Event.Msg", <<phi>>,
                               TermPos)
        Join(Q) == Msg(AddPhi(Q, "F",
                              JoinEdgeNodes(sh.edges, 1, 2, LastNode(Q) + 1, LastNode(Q) + 1),
                              "Event"),
                       LastNode(Q) + 1)
    IN  Join(AddJoinForward(ProgF, sh.edges, 1))

JoinShapes ==
    {[fam |-> "join", edges |-> es] :
        es \in SeqsUpTo({"nil", "ctx", "plain", "back", "backCtx", "self"}, MaxEdges)}

InitJoin ==
    /\ shape \in JoinShapes
    /\ prog = JoinProg(shape)
    /\ ignoreMap = <<>>
    /\ InitRun

SpecJoin == InitJoin /\ [][Next]_vars

\* loops whose body may assign a fresh Event before the call on e
LoopShapes ==
    {[fam |-> "loop", edges |-> es] :
        es \in SeqsUpTo({"ctx", "plain", "back", "nested", "nestedCtx"}, MaxEdges)}

InitLoop ==
    /\ shape \in LoopShapes
    /\ prog = JoinProg(shape)
    /\ ignoreMap = <<>>
    /\ InitRun

SpecLoop == InitLoop /\ [][Next]_vars

(***************************************************************************)
(* Event written to a slot on several paths:                               *)
(*   func F(ctx, logger) { e := logger.<store 1>; p := &e                  *)
(*                         if .. { *p = logger.<store 2> } ...             *)
(*                         for .. { *p = p->Str() }        <- selfs        *)
(*                         p->Msg("x") }                                   *)
(* The slot is the cell of e ("ptr"), the field h.ev of a local struct     *)
(* ("field"), the target of a parameter p **zerolog.Event ("param") or a   *)
(* package-level variable ("global").  Node 3 is the cell, the struct, the *)
(* parameter or the global.                                                *)
(***************************************************************************)
AddSlotBase(P, sh) ==
    CASE sh.slot = "ptr" -> AddAlloc(P, "F", "EventCell")
      [] sh.slot = "field" -> AddAlloc(P, "F", "other")
      [] sh.slot = "param" -> AddNode(P, Param("F", "EventCell"))
      [] OTHER -> AddNode(P, [Node0 EXCEPT !.kind = "Global", !.typ = "EventCell"])

\* *slot = logger.<stores[i]> for the stores from i on
RECURSIVE AddPlainStores(_, _, _)
AddPlainStores(P, sh, i) ==
    IF i > Len(sh.stores) THEN P
    ELSE LET Put(Q) == AddSlotStore(Q, sh, 3, LastNode(Q))
         IN  AddPlainStores(Put(AddChainOn(P, "F", 2, sh.stores[i], 1, TermPos[1], 10 * i)),
                            sh, i + 1)

SlotProg(sh) ==
    LET Msg(Q) == AddCall(Q, "F", "Event.Msg", <<LastNode(Q)>>, TermPos)
    IN  Msg(AddSlotLoad(AddSelfStores(AddPlainStores(AddSlotBase(ProgF, sh), sh, 1), sh, 3, 1),
                        sh, 3))

SlotShapes ==
    {[fam |-> "slot", slot |-> sl, stores |-> st, selfs |-> ss] :
        sl \in {"ptr", "field", "param", "global"},
        st \in SeqsUpTo({<<"Logger.Info">>, <<"Logger.Info", "Event.Ctx">>}, MaxStores),
        ss \in SeqsUpTo({"Event.Str", "Event.Ctx"}, MaxSelf)}

InitSlot ==
    /\ shape \in SlotShapes
    /\ prog = SlotProg(shape)
    /\ ignoreMap = <<>>
    /\ InitRun

SpecSlot == InitSlot /\ [][Next]_vars

(***************************************************************************)
(* A file with comments around one logging statement on line 10:           *)
(*   func F(ctx, logger) { <stmt> }                                        *)
(*   func G(ctx, logger) { <stmt> }        <- copy = "other"               *)
(* <stmt> is logger.Info().Msg("x") ("plain"), logger.Info().Ctx(ctx)      *)
(* .Msg("x") ("ctx"), logger.Print("x") or log.Print("x").  With copy =    *)
(* "same" F holds the statement twice, with copy = "other" F and G hold    *)
(* it, each time at the same position; with copy = "above" G holds it one  *)
(* line above F's.  The comments of shape.lines all have the text          *)
(* shape.text.                                                             *)
(***************************************************************************)
\* the statement in f at pos, the parameters ctx and logger of f being the
\* nodes c and l
AddStmt(P, f, stmt, c, l, pos) ==
    CASE stmt = "plain" ->
           AddTerm(AddChainOn(P, f, l, <<"Logger.Info">>, c, pos[1], 0),
                   f, "Event.Msg", pos)
      [] stmt = "ctx" ->
           AddTerm(AddChainOn(P, f, l, <<"Logger.Info", "Event.Ctx">>, c, pos[1], 0),
                   f, "Event.Msg", pos)
      [] stmt = "Logger.Print" -> AddCall(P, f, "Logger.Print", <<l>>, pos)
      [] OTHER -> AddCall(P, f, "log.Print", <<>>, pos)

\* where the statement of G sits with copy = "above": one line higher
AbovePos == <<TermPos[1] - 1, TermPos[2]>>

LinesProg(sh) ==
    LET InG(Q) ==
            AddStmt(
              AddNode(
                AddNode(
                  AddFunc(Q, "G", UserFunc("G", <<[name |-> "ctx", type |-> "ctx"],
                                                  [name |-> "logger", type |-> "Logger"]>>,
                                           <<>>, "")),
                  Param("G", "ctx")),
                Param("G", "Logger")),
              "G", sh.stmt, LastNode(Q) + 1, LastNode(Q) + 2,
              IF sh.copy = "above" THEN AbovePos ELSE TermPos)
    IN  CASE sh.copy = "none" -> AddStmt(ProgF, "F", sh.stmt, 1, 2, TermPos)
          [] sh.copy = "same" ->
               AddStmt(AddStmt(ProgF, "F", sh.stmt, 1, 2, TermPos), "F", sh.stmt, 1, 2, TermPos)
          [] OTHER -> InG(AddStmt(ProgF, "F", sh.stmt, 1, 2, TermPos))

LinesShapes ==
    {[fam |-> "lines", lines |-> ls, text |-> tx, stmt |-> st, copy |-> cp] :
        ls \in SUBSET ((TermPos[1] - 2)..(TermPos[1] + 1)),
        tx \in {<<"//", "zerologlintctx:ignore">>,
                <<"//", " ", "zerologlintctx:ignore">>,
                <<"//", " ", "zerologlintctx:ignore", " ", "legacy">>,
                <<"//", " ", "nolint">>,
                <<"/*", " ", "zerologlintctx:ignore", " ", "*/">>},
        st \in {"plain", "ctx", "Logger.Print", "log.Print"},
        cp \in {"none", "same", "other", "above"}}

InitLines ==
    /\ shape \in LinesShapes
    /\ prog = LinesProg(shape)
    /\ ignoreMap = BuildIgnoreMap({[line |-> l, text |-> shape.text] : l \in shape.lines})
    /\ InitRun

SpecLines == InitLines /\ [][Next]_vars

(***************************************************************************)
(* Two cells of one struct or array:                                       *)
(*   func F(ctx, logger) { var h holder                                    *)
(*                         if .. { h.info = logger.<store 1> } ...         *)
(*                         h.error = logger.<other>                        *)
(*                         h.info.Msg("x") }                               *)
(* and the same with events := [2]*zerolog.Event{..}; events[0].Msg("x").  *)
(***************************************************************************)
\* t = &x[k], k a constant
AddIndexAddr(P, f, x, k) ==
    AddInstr(AddNode(AddNode(P, [Node0 EXCEPT !.kind = "Const", !.cval = k]),
                     [Node0 EXCEPT !.kind = "IndexAddr", !.x = x, !.index = LastNode(P) + 1,
                                   !.parent = f]),
             f, [Instr0 EXCEPT !.op = "IndexAddr", !.node = LastNode(P) + 2])

\* a fresh address of cell k of h: &h.<field k> or &h[k]
AddCellAddr(P, sh, h, k) ==
    IF sh.slot = "field" THEN AddFieldAddr(P, "F", h, k) ELSE AddIndexAddr(P, "F", h, k)

\* cell k of h = logger.<ops>
AddCellStore(P, sh, h, k, ops, col) ==
    LET Put(Q, val) == AddStore(Q, "F", LastNode(Q), val)
        To(Q) == Put(AddCellAddr(Q, sh, h, k), LastNode(Q))
    IN  To(AddChainOn(P, "F", 2, ops, 1, TermPos[1], col))

RECURSIVE AddCellStores(_, _, _, _)
AddCellStores(P, sh, h, i) ==
    IF i > Len(sh.stores) THEN P
    ELSE AddCellStores(AddCellStore(P, sh, h, 0, sh.stores[i], 10 * i), sh, h, i + 1)

\* a fresh holder, its stores to cell 0, the store to cell 1 (other, none
\* when empty) before or after them, and <cell 0>.Msg("x") at pos
AddCells(P, sh, other, pos) ==
    LET h == LastNode(P) + 1
        Msg(Q) == AddCall(Q, "F", "Event.Msg", <<LastNode(Q)>>, pos)
        Load(Q) == AddLoad(Q, "F", LastNode(Q))
        Other(Q) == IF other = <<>> THEN Q ELSE AddCellStore(Q, sh, h, 1, other, 40)
    IN  IF sh.order = "after"
        THEN Msg(Load(AddCellAddr(Other(AddCellStores(AddAlloc(P, "F", "other"), sh, h, 1)),
                                  sh, h, 0)))
        ELSE Msg(Load(AddCellAddr(AddCellStores(Other(AddAlloc(P, "F", "other")), sh, h, 1),
                                  sh, h, 0)))

CellProg(sh) == AddCells(ProgF, sh, sh.other, TermPos)

CellShapes ==
    {[fam |-> "cell", slot |-> sl, stores |-> st, other |-> ot, order |-> od] :
        sl \in {"field", "index"},
        st \in SeqsUpTo({<<"Logger.Info">>, <<"Logger.Info", "Event.Ctx">>}, MaxStores),
        ot \in {<<"Logger.Info">>, <<"Logger.Info", "Event.Ctx">>},
        od \in {"before", "after"}}

InitCell ==
    /\ shape \in CellShapes
    /\ prog = CellProg(shape)
    /\ ignoreMap = <<>>
    /\ InitRun

SpecCell == InitCell /\ [][Next]_vars

(***************************************************************************)
(* The same Events joined, or stored, in two orders:                       *)
(*   func F(ctx, logger) { var e *zerolog.Event                            *)
(*                         if a { e = <edge 1> } else if b { e = <edge 2> }*)
(*                         e.Msg("x")                                      *)
(*                         .. the same assignments, the branches in the    *)
(*                         order perm ..                                   *)
(*                         e2.Msg("x") }                                   *)
(* and the same with the values stored through p := &e and q := &e2.  The  *)
(* second Phi has the edges of the first in the order perm, an edge "back" *)
(* being a call on the Phi itself; the second slot is stored the values of *)
(* the first in the order perm.                                            *)
(***************************************************************************)
PermProg(sh) ==
    LET Permuted(seq) == [i \in 1..Len(sh.perm) |-> seq[sh.perm[i]]]
        Msg(Q) == AddCall(Q, "F", "Event.Msg", <<LastNode(Q)>>, AbovePos)
        \* the second Phi of P, whose first is phi
        TwinJoin(P, phi) ==
            LET phi2 == LastNode(P) + 1
                es2 == Permuted(sh.edges)
                Edge(i) == IF es2[i] = "back"
                           THEN JoinEdgeNodes(es2, 1, 0, phi2, phi2)[i]
                           ELSE P.nodes[phi].edges[sh.perm[i]]
            IN  AddCall(AddJoinBack(AddPhi(P, "F", [i \in 1..Len(es2) |-> Edge(i)], "Event"),
                                    es2, 1, phi2),
                        "F", "Event.Msg", <<phi2>>, AbovePos)
        \* *slot = vals[i] for the values from i on
        RECURSIVE Stores(_, _, _)
        Stores(Q, slot, vals) ==
            IF vals = <<>> THEN Q
            ELSE Stores(AddSlotStore(Q, sh, slot, Head(vals)), slot, Tail(vals))
        \* the second slot of P, stored the values vals of the first
        TwinStores(P, vals) ==
            Msg(AddSlotLoad(Stores(AddSlotBase(P, sh), LastNode(P) + 1, Permuted(vals)),
                            sh, LastNode(P) + 1))
        StoredIn(P) ==
            LET st == SelectSeq(P.funcs["F"].instrs, LAMBDA ins : ins.op = "Store")
            IN  [i \in 1..Len(st) |-> st[i].val]
        PhiOf(P) == CHOOSE v \in 1..Len(P.nodes) : P.nodes[v].kind = "Phi"
    IN  IF sh.kind = "join" THEN TwinJoin(JoinProg(sh), PhiOf(JoinProg(sh)))
        ELSE TwinStores(SlotProg(sh), StoredIn(SlotProg(sh)))

PermShapes ==
    UNION {{[fam |-> "perm", kind |-> "join", edges |-> es, perm |-> pm,
             slot |-> "ptr", stores |-> <<>>, selfs |-> <<>>] :
               pm \in Perms(1..Len(es))} :
           es \in SeqsUpTo({"nil", "ctx", "plain", "back"}, MaxEdges)}
    \cup
    UNION {{[fam |-> "perm", kind |-> "stores", edges |-> <<>>, perm |-> pm,
             slot |-> sl, stores |-> st, selfs |-> <<>>] :
               pm \in Perms(1..Len(st)), sl \in {"ptr", "field"}} :
           st \in SeqsUpTo({<<"Logger.Info">>, <<"Logger.Info", "Event.Ctx">>}, MaxStores)}

InitPerm ==
    /\ shape \in PermShapes
    /\ prog = PermProg(shape)
    /\ ignoreMap = <<>>
    /\ InitRun

SpecPerm == InitPerm /\ [][Next]_vars

\* queries on every kind of value: joins, loops, slots, literals, closures
\* and uses
SpecTrace ==
    /\ InitPhi \/ InitJoin \/ InitLoop \/ InitSlot \/ InitStore \/ InitIIFE \/ InitClosure
         \/ InitUse
    /\ [][Next]_vars

\* passes over several functions: nested functions and commented files
SpecPass == (InitNest \/ InitLines) /\ [][Next]_vars

(***************************************************************************)
(* Properties                                                              *)
(***************************************************************************)
Reported(pos, kind) == \E i \in 1..Len(diags) : diags[i].pos = pos /\ diags[i].kind = kind
ReportedAs(pos, kind, name) ==
    \E i \in 1..Len(diags) : diags[i] = [pos |-> pos, kind |-> kind, name |-> name]
Resolved(pos, r) == \E q \in traced : q.pos = pos /\ q.r = r
Done == phase = "done" /\ ~crashed

\* a Builder created by a Carrier method on an unmarked Carrier, followed
\* only by Builder-receiver calls
StraightBuilderChain(sh) ==
    /\ sh.fam = "chain"
    /\ sh.root \in {"param.Logger", "zerolog.New"}
    /\ Len(sh.ops) >= 1
    /\ sh.ops[1] = "Logger.Info"
    /\ \A i \in 2..Len(sh.ops) : sh.ops[i] \in {"Event.Str", "Event.Ctx"}

\* C1: with ctx in scope, the terminator of a straight-line Event chain on
\* an unmarked Logger is reported as missing .Ctx(ctx) exactly when no call
\* of the chain is Event.Ctx, wherever Event.Ctx stands in the chain.
C1_StraightChainReportedIffNoCtx ==
    (Done /\ StraightBuilderChain(shape)) =>
        (ReportedAs(TermPos, MissingPropagation, "ctx")
            <=> "Event.Ctx" \notin SeqToSet(shape.ops))

C1_Witness ==
    /\ Done
    /\ StraightBuilderChain(shape)
    /\ shape.ops = <<"Logger.Info", "Event.Str", "Event.Ctx", "Event.Str">>
    /\ Resolved(TermPos, TRUE)
    /\ diags = <<>>

\* C7: in a function with ctx in scope, a Print* call on a Logger or of the
\* global log package is reported as a bypass at its position, no trace is
\* run for it, and it is reported also when the Logger carries ctx.
C7_BypassAlwaysReported ==
    (Done /\ shape.fam = "chain" /\ shape.term \in {"Logger.Print", "log.Print"}) =>
        /\ ReportedAs(TermPos, BypassCall, "ctx")
        /\ \A q \in traced : q.pos # TermPos

C7_Witness ==
    /\ Done
    /\ shape.fam = "chain"
    /\ shape.root = "zerolog.Ctx"
    /\ shape.ops = <<"Logger.With", "Context.Ctx", "Context.Logger">>
    /\ shape.term = "Logger.Print"
    /\ ReportedAs(TermPos, BypassCall, "ctx")

\* C8: an Event chain whose trace reaches zerolog.Ctx / log.Ctx, directly
\* or through Logger methods and With()...Logger() derivations, has ctx:
\* its terminator is not reported.
C8_AmbientSourceResolvesTrue ==
    (Done /\ shape.fam = "chain" /\ shape.root \in {"zerolog.Ctx", "log.Ctx"}
          /\ shape.term = "Event.Msg") =>
        /\ Resolved(TermPos, TRUE)
        /\ ~Reported(TermPos, MissingPropagation)

C8_Witness ==
    /\ Done
    /\ shape.fam = "chain"
    /\ shape.root = "log.Ctx"
    /\ shape.ops = <<"Logger.Level", "Logger.With", "Context.Str", "Context.Logger", "Logger.Info">>
    /\ Resolved(TermPos, TRUE)
    /\ ~Reported(TermPos, MissingPropagation)

Tracers == {tracerEvent, tracerLogger, tracerContext}

PhiNodes == {v \in 1..Len(prog.nodes) : Node(v).kind = "Phi"}

\* a Phi none of whose edges is the nil constant or leads back to the Phi
PlainPhi(v) ==
    \A i \in 1..Len(Node(v).edges) :
        /\ ~isNilConst(Node(v).edges[i])
        /\ ~edgeLeadsTo(Node(v).edges[i], v, {})

\* C2: a Phi without nil edges and back-edges resolves, under every role,
\* to the conjunction of what its edges resolve to on their own; an Event
\* Phi of two edges of which exactly one carries ctx resolves false and the
\* terminator is reported.
C2_JoinLaw ==
    /\ \A v \in PhiNodes : \A t \in Tracers :
          PlainPhi(v) =>
             (traceValue(v, t, {}).r
                <=> \A i \in 1..Len(Node(v).edges) : traceValue(Node(v).edges[i], t, {}).r)
    /\ (Done /\ shape.fam = "phi" /\ shape.role = "Event" /\ Len(shape.edges) = 2)
          => \A v \in PhiNodes :
                (traceValue(Node(v).edges[1], tracerEvent, {}).r
                    # traceValue(Node(v).edges[2], tracerEvent, {}).r)
                => (Resolved(TermPos, FALSE)
                    /\ ReportedAs(TermPos, MissingPropagation, "ctx"))

C2_Witness ==
    /\ Done
    /\ shape.fam = "phi"
    /\ shape.root = "param.Logger"
    /\ shape.edges = <<[on |-> "B", ops |-> <<"Logger.Info", "Event.Ctx">>],
                       [on |-> "B", ops |-> <<"Logger.Info">>]>>
    /\ PhiNodes # {}
    /\ \A v \in PhiNodes : PlainPhi(v) /\ ~traceValue(v, tracerEvent, {}).r
    /\ ReportedAs(TermPos, MissingPropagation, "ctx")

\* the MakeClosure instructions that create the closure fn
CreationSites(fn) ==
    {v \in 1..Len(prog.nodes) : Node(v).kind = "MakeClosure" /\ Node(v).fn = fn}

FreeVarNodes == {v \in 1..Len(prog.nodes) : Node(v).kind = "FreeVar"}

LiteralCalls ==
    {v \in 1..Len(prog.nodes) :
        /\ Node(v).kind = "Call"
        /\ Node(v).value # 0
        /\ Node(Node(v).value).kind \in {"MakeClosure", "Function"}
        /\ Node(v).callee # ""
        /\ Fn(Node(v).callee).parent = Node(v).parent}

\* the values returned by the return statements of g
ReturnedValues(g) ==
    {Fn(g).instrs[i].results[1] :
        i \in {j \in 1..Len(Fn(g).instrs) :
                  Fn(g).instrs[j].op = "Return" /\ Len(Fn(g).instrs[j].results) > 0}}

RoleTyped(g) ==
    /\ Len(Fn(g).results) > 0
    /\ (IsEvent(Fn(g).results[1]) \/ IsLogger(Fn(g).results[1]) \/ IsContext(Fn(g).results[1]))

\* the law of C6 for the invocation v
LiteralLaw(v) ==
    RoleTyped(Node(v).callee) =>
        (traceValue(v, tracerEvent, {}).r
            <=> /\ ReturnedValues(Node(v).callee) # {}
                /\ \A r \in ReturnedValues(Node(v).callee) : traceValue(r, tracerEvent, {}).r)

\* C6: the invocation of a function literal with a zerolog result has ctx
\* exactly when the literal has a return statement and every returned value
\* has ctx on its own, also for a literal invoked inside a literal; a
\* return without ctx gets the terminator reported.
C6_LiteralAllReturns ==
    /\ \A v \in LiteralCalls : LiteralLaw(v)
    /\ (Done /\ shape.fam = "iife")
          => \A v \in LiteralCalls :
                (Node(v).parent = "F"
                 /\ \E r \in ReturnedValues(Node(v).callee) : ~traceValue(r, tracerEvent, {}).r)
                => ReportedAs(TermPos, MissingPropagation, "ctx")

\* the same law for the invocations of closures only
LiteralLawOfClosures ==
    \A v \in LiteralCalls : Node(Node(v).value).kind = "MakeClosure" => LiteralLaw(v)

\* C4: every query returns true or false: no input, whatever loops, Phis
\* and stores it has, makes the analyzer overflow its stack, and the
\* terminator of the function always gets its answer.
C4_ResolveTerminates ==
    /\ ~crashed
    /\ phase = "done" => \E q \in traced : q.pos = TermPos

\* a slot written by the init store and by self-referential stores only
SelfStoreSlot(sh) == sh.fam = "store" /\ sh.slot # "none" /\ ~sh.carried

RECURSIVE NearestLevel(_, _)
NearestLevel(kinds, k) ==
    IF k = 0 THEN 0
    ELSE IF kinds[k] # "none" THEN k
    ELSE NearestLevel(kinds, k - 1)

\* the name of the first context.Context parameter of level k
FirstCtxName(kinds, k) ==
    IF kinds[k] = "two" THEN "a" \o ToString(k) ELSE "ctx" \o ToString(k)

\* the binding level k must get
NearestName(kinds, k) == FirstCtxName(kinds, NearestLevel(kinds, k))

\* C10: once the context map is built, every function is bound to the name
\* of the first context.Context parameter of the nearest function around it
\* (itself included) that has one, and is unbound when there is none; the
\* propagation loop ends within as many rounds as there are functions, the
\* map is the same for every order of SrcFuncs, and each diagnostic names
\* the binding of the function it is in.
C10_NearestEnclosingBinding ==
    shape.fam = "nest" =>
        /\ round <= Len(shape.kinds)
        /\ phase \in {"check", "done"} =>
              \A k \in 1..Len(shape.kinds) :
                  IF NearestLevel(shape.kinds, k) = 0
                  THEN LevelName(k) \notin DOMAIN funcCtx
                  ELSE /\ LevelName(k) \in DOMAIN funcCtx
                       /\ funcCtx[LevelName(k)] = NearestName(shape.kinds, k)
        /\ Done =>
              \A k \in 1..Len(shape.kinds) :
                  /\ NearestLevel(shape.kinds, k) # 0 =>
                        ReportedAs(LevelPos(k), MissingPropagation, NearestName(shape.kinds, k))
                  /\ \A i \in 1..Len(diags) :
                        diags[i].pos = LevelPos(k) =>
                            diags[i].name = NearestName(shape.kinds, k)

C10_Witness ==
    /\ Done
    /\ shape.fam = "nest"
    /\ shape.kinds = <<"two", "none", "none">>
    /\ shape.order = <<3, 2, 1>>
    /\ round = 3
    /\ funcCtx["F$1$1"] = "a1"
    /\ ReportedAs(LevelPos(3), MissingPropagation, "a1")

\* the functions of the package that have no context binding: no
\* context.Context parameter of their own nor in any function around them
Unbound == {k \in 1..Len(shape.kinds) : NearestLevel(shape.kinds, k) = 0}

\* the positions of the instructions of function f
PosIn(f) == {Fn(f).instrs[i].pos : i \in 1..Len(Fn(f).instrs)}

\* C11: a function without context binding is never handed to a Checker:
\* neither its Event terminator nor its log.Print call is reported, as
\* missing .Ctx or as a bypass, also when a function literal inside it
\* introduces a context.Context parameter and is reported itself.
C11_UnboundNeverReported ==
    shape.fam = "nest" =>
        \A k \in Unbound :
            /\ phase \in {"check", "done"} => LevelName(k) \notin DOMAIN funcCtx
            /\ \A i \in 1..Len(diags) : diags[i].pos \notin PosIn(LevelName(k))

C11_Witness ==
    /\ Done
    /\ shape.fam = "nest"
    /\ shape.kinds = <<"none", "one", "none">>
    /\ Unbound = {1}
    /\ LevelPos(1) \in PosIn("F") /\ PrintPos(1) \in PosIn("F")
    /\ ReportedAs(LevelPos(2), MissingPropagation, "ctx2")
    /\ ReportedAs(PrintPos(3), BypassCall, "ctx2")
    /\ Len(diags) = 4

\* the instructions of function f with operation op
InstrsOf(f, op) == {ins \in SeqToSet(Fn(f).instrs) : ins.op = op}

\* the Event a deferred terminator is invoked on: the receiver captured by
\* the method value, or the first argument of the direct method call
DeferredBuilder(ins) ==
    IF ins.value # 0 /\ Node(ins.value).kind = "MakeClosure"
    THEN Node(ins.value).bindings[1]
    ELSE ins.args[1]

\* the law of C12 for the deferred call ins
DeferredLaw(ins) ==
    ReportedAs(ins.pos, MissingPropagation, "ctx")
        <=> ~traceValue(DeferredBuilder(ins), tracerEvent, {}).r

\* C12: a deferred terminator is reported exactly when the Event it is
\* invoked on has no ctx, for defer e.Msg(..) and for msg := e.Msg;
\* defer msg(..) alike.
C12_DeferredAsPlain ==
    (Done /\ shape.fam = "use") => \A ins \in InstrsOf("F", "Defer") : DeferredLaw(ins)

\* the same law for defer e.Msg(..) only
DeferredLawOfDirect ==
    (Done /\ shape.fam = "use") =>
        \A ins \in InstrsOf("F", "Defer") : ins.value = 0 => DeferredLaw(ins)

\* the plain calls of F whose callee value is a MakeClosure
ClosureCalls ==
    {ins \in InstrsOf("F", "Call") :
        Node(ins.node).value # 0 /\ Node(Node(ins.node).value).kind = "MakeClosure"}

\* C13: a plain call of a closure is reported as missing .Ctx exactly when
\* the closure's function returns nothing, the first binding is of type
\* Event and that binding, traced as an Event from an empty visited set,
\* has no ctx.
C13_ClosureCallReportedIff ==
    (Done /\ shape.fam = "use") =>
        \A ins \in ClosureCalls :
            LET mc == Node(Node(ins.node).value)
            IN  ReportedAs(ins.pos, MissingPropagation, "ctx")
                    <=> /\ ReturnsVoid(Node(ins.node).callee)
                        /\ Len(mc.bindings) > 0
                        /\ IsEvent(Node(mc.bindings[1]).typ)
                        /\ ~traceValue(mc.bindings[1], tracerEvent, {}).r

C13_Witness ==
    /\ Done
    /\ shape.fam = "use"
    /\ shape.use = "bound"
    /\ shape.init = <<"Logger.Info", "Event.Str">>
    /\ ClosureCalls # {}
    /\ Resolved(TermPos, FALSE)
    /\ ReportedAs(TermPos, MissingPropagation, "ctx")

\* the calls without static callee
DynamicCalls == {v \in 1..Len(prog.nodes) : Node(v).kind = "Call" /\ Node(v).callee = ""}

\* C17: a call without static callee resolves, under every role and from
\* every visited set, to what its first argument resolves to under that
\* role with the call added to the visited set, and to false when it has no
\* argument; an Event from an interface method is reported.
C17_DynamicCallFollowsFirstArg ==
    /\ \A v \in DynamicCalls : \A t \in Tracers :
          \A vis \in {{}} \cup {{w} : w \in (1..Len(prog.nodes)) \ {v}} :
             traceValue(v, t, vis).r
                <=> /\ Len(Node(v).args) > 0
                    /\ traceValue(Node(v).args[1], t, vis \cup {v}).r
    /\ (Done /\ shape.fam = "use" /\ shape.use = "dyn0")
          => (Resolved(TermPos, FALSE) /\ ReportedAs(TermPos, MissingPropagation, "ctx"))

C17_Witness ==
    /\ Done
    /\ shape.fam = "use"
    /\ shape.use = "dyn"
    /\ shape.init = <<"Logger.Info", "Event.Ctx">>
    /\ DynamicCalls # {}
    /\ Resolved(TermPos, TRUE)
    /\ diags = <<>>

\* the static calls of functions declared in the analysed package
HelperCalls ==
    {v \in 1..Len(prog.nodes) :
        /\ Node(v).kind = "Call"
        /\ Node(v).callee # ""
        /\ Node(v).value = 0
        /\ Fn(Node(v).callee).pkg = "user"
        /\ Fn(Node(v).callee).recv = "none"}

\* C18: the result of a static call of a helper function without receiver
\* has no ctx under any role, whether the helper calls Event.Ctx itself or
\* is handed an Event that has ctx; the terminator on it is reported.
C18_HelperResultUnresolved ==
    /\ \A v \in HelperCalls : \A t \in Tracers : ~traceValue(v, t, {}).r
    /\ (Done /\ shape.fam = "use" /\ shape.use \in {"helper", "helperCtx"})
          => (Resolved(TermPos, FALSE) /\ ReportedAs(TermPos, MissingPropagation, "ctx"))

C18_Witness ==
    /\ Done
    /\ shape.fam = "use"
    /\ shape.use = "helper"
    /\ shape.init = <<"Logger.Info", "Event.Ctx">>
    /\ HelperCalls # {}
    /\ \E v \in HelperCalls : traceValue(Node(v).args[1], tracerEvent, {}).r
    /\ ReportedAs(TermPos, MissingPropagation, "ctx")

\* the loads t = *addr and the Allocs of the package
Loads == {v \in 1..Len(prog.nodes) : Node(v).kind = "UnOp" /\ Node(v).op = "MUL"}
Allocs == {v \in 1..Len(prog.nodes) : Node(v).kind = "Alloc"}

\* the address a load or an Alloc stands for
AddressOf(v) == IF Node(v).kind = "Alloc" THEN v ELSE Node(v).x

\* the values written to addr in function f by stores that do not read addr
PlainStoresTo(addr, f) ==
    {ins.val : ins \in {i \in InstrsOf(f, "Store") :
                            addressesMatch(i.addr, addr) /\ ~valueLoadsFrom(i.val, addr).r}}

\* the law of C14 for the load or Alloc v in function f under role t
StoreLaw(v, f, t) ==
    traceValue(v, t, {}).r
        <=> IF PlainStoresTo(AddressOf(v), f) # {}
            THEN \A s \in PlainStoresTo(AddressOf(v), f) : traceValue(s, t, {v}).r
            ELSE IF Node(v).kind = "Alloc" THEN FALSE
            ELSE traceValue(AddressOf(v), t, {v}).r

\* C14: a load, and an Alloc, whose address is written by stores that do
\* not read it has ctx exactly when every value so stored has; a slot with
\* ctx in its first store and none in a later store has no ctx and the
\* terminator is reported; without such a store an Alloc has no ctx and a
\* load has ctx exactly when its address has.
C14_AllStoresLaw ==
    /\ \A v \in Loads \cup Allocs : \A t \in Tracers : StoreLaw(v, Node(v).parent, t)
    /\ (Done /\ shape.fam = "slot" /\ shape.stores # <<>>)
          => (ReportedAs(TermPos, MissingPropagation, "ctx")
                <=> <<"Logger.Info">> \in SeqToSet(shape.stores))

\* the same law for the addresses that are instructions: Alloc, FieldAddr
StoreLawOfInstructions ==
    /\ \A v \in Loads \cup Allocs : \A t \in Tracers :
          Node(AddressOf(v)).kind \notin NonInstrKinds => StoreLaw(v, Node(v).parent, t)
    /\ (Done /\ shape.fam = "slot" /\ shape.slot \in {"ptr", "field"} /\ shape.stores # <<>>)
          => (ReportedAs(TermPos, MissingPropagation, "ctx")
                <=> <<"Logger.Info">> \in SeqToSet(shape.stores))

\* the edges of the Phi v that are neither the nil constant nor lead back
\* to v
Eligible(v) ==
    {i \in 1..Len(Node(v).edges) :
        /\ ~(Node(Node(v).edges[i]).kind = "Const" /\ Node(Node(v).edges[i]).isNil)
        /\ ~edgeLeadsTo(Node(v).edges[i], v, {})}

\* C15: a Phi with an eligible edge resolves, under every role, to the
\* conjunction of what its eligible edges resolve to; the Phi of a nil edge
\* and an edge with ctx has ctx and the terminator is not reported; the Phi
\* of a nil edge, an edge with ctx and an edge without has none and the
\* terminator is reported.
C15_NilEdgeSkipped ==
    /\ \A v \in PhiNodes : \A t \in Tracers :
          Eligible(v) # {} =>
             (traceValue(v, t, {}).r
                <=> \A i \in Eligible(v) : traceValue(Node(v).edges[i], t, {}).r)
    /\ (Done /\ shape.fam = "join" /\ SeqToSet(shape.edges) = {"nil", "ctx"})
          => (Resolved(TermPos, TRUE) /\ ~Reported(TermPos, MissingPropagation))
    /\ (Done /\ shape.fam = "join" /\ SeqToSet(shape.edges) = {"nil", "ctx", "plain"})
          => (Resolved(TermPos, FALSE) /\ ReportedAs(TermPos, MissingPropagation, "ctx"))

C15_Witness ==
    /\ Done
    /\ shape.fam = "join"
    /\ shape.edges = <<"nil", "ctx">>
    /\ \A v \in PhiNodes : Eligible(v) = {2} /\ traceValue(v, tracerEvent, {}).r
    /\ PhiNodes # {}
    /\ diags = <<>>

\* C16: a Phi without eligible edge (no edge at all, or nil edges and
\* back-edges only) resolves false under every role, and the terminator on
\* it is reported.
C16_NoEligibleEdgeFalse ==
    /\ \A v \in PhiNodes : \A t \in Tracers : Eligible(v) = {} => ~traceValue(v, t, {}).r
    /\ (Done /\ shape.fam = "join" /\ SeqToSet(shape.edges) \cap {"ctx", "plain"} = {})
          => (Resolved(TermPos, FALSE) /\ ReportedAs(TermPos, MissingPropagation, "ctx"))

C16_Witness ==
    /\ Done
    /\ shape.fam = "join"
    /\ shape.edges = <<"nil", "backCtx">>
    /\ PhiNodes # {}
    /\ \A v \in PhiNodes : Eligible(v) = {} /\ ~traceValue(v, tracerEvent, {}).r
    /\ ReportedAs(TermPos, MissingPropagation, "ctx")

OnePerPositionInFunction ==
    (phase = "done" /\ shape.fam = "lines" /\ shape.copy # "other") =>
        \A i, j \in 1..Len(diags) : diags[i].pos = diags[j].pos => i = j

\* the comment texts that are ignore directives
DirectiveTexts ==
    {<<"//", "zerologlintctx:ignore">>,
     <<"//", " ", "zerologlintctx:ignore">>,
     <<"//", " ", "zerologlintctx:ignore", " ", "legacy">>}

\* the file has an ignore directive on line l
DirectiveOn(l) == shape.fam = "lines" /\ l \in shape.lines /\ shape.text \in DirectiveTexts

\* the kind of the diagnostic the statement of the lines family is due
DueKind == IF shape.stmt = "plain" THEN MissingPropagation ELSE BypassCall

\* C20: the diagnostic due on line L, MissingPropagation or BypassCall, is
\* withheld exactly when the file has an ignore directive on line L or on
\* line L - 1; directives on L - 2 and on L + 1 alone withhold nothing.
C20_IgnoreSameOrPreviousLine ==
    (Done /\ shape.fam = "lines" /\ shape.stmt # "ctx") =>
        /\ ~ReportedAs(TermPos, DueKind, "ctx")
              <=> (DirectiveOn(TermPos[1]) \/ DirectiveOn(TermPos[1] - 1))
        /\ shape.lines \subseteq {TermPos[1] - 2, TermPos[1] + 1}
              => ReportedAs(TermPos, DueKind, "ctx")

C20_Witness ==
    /\ Done
    /\ shape.fam = "lines"
    /\ shape.stmt = "Logger.Print"
    /\ shape.copy = "none"
    /\ shape.lines = {TermPos[1] - 2, TermPos[1] - 1}
    /\ DirectiveOn(TermPos[1] - 1)
    /\ ~Reported(TermPos, BypassCall)
    /\ ignoreMap[TermPos[1] - 1]
    /\ Reported(DirectivePos(TermPos[1] - 2), UnusedIgnore)

\* the positions of the lines family at which a diagnostic is due
DuePositions ==
    IF shape.fam # "lines" \/ shape.stmt = "ctx" THEN {}
    ELSE IF shape.copy = "above" THEN {TermPos, AbovePos}
    ELSE {TermPos}

\* the lines around the statements of the lines family
NearLines == (TermPos[1] - 2)..(TermPos[1] + 1)

\* a diagnostic due at p is withheld through the directive on line l
WithheldThrough(p, l) ==
    /\ DirectiveOn(l)
    /\ \/ Line(p) = l
       \/ Line(p) = l + 1 /\ ~DirectiveOn(l + 1)

\* the used marks of a finished pass, and its unused reports, are those of
\* the directives through which no due diagnostic is withheld
UnusedWhenDone ==
    (Done /\ shape.fam = "lines") =>
        \A l \in NearLines :
            /\ Reported(DirectivePos(l), UnusedIgnore)
                  <=> (DirectiveOn(l) /\ ~\E p \in DuePositions : WithheldThrough(p, l))
            /\ Reported(DirectivePos(l), UnusedIgnore) <=> (DirectiveOn(l) /\ ~ignoreMap[l])

\* unused reports exist only once every function has been checked
UnusedOnlyAtEnd ==
    (\E i \in 1..Len(diags) : diags[i].kind = UnusedIgnore) => (phase = "done" /\ todo = {})

\* a step never clears a used mark, and sets one only for a due diagnostic
\* on the directive's line or the line below that the step withholds
MarksStep ==
    \A l \in DOMAIN ignoreMap :
        /\ ignoreMap[l] => ignoreMap'[l]
        /\ (~ignoreMap[l] /\ ignoreMap'[l])
              => \E p \in DuePositions :
                    /\ Line(p) \in {l, l + 1}
                    /\ \A i \in 1..Len(diags') : diags'[i].pos # p

\* C21: at the end of a pass the unused report of a directive is there
\* exactly when no due diagnostic was withheld through it, whatever the
\* order of the functions; a used mark is set only by a step that withholds
\* a due diagnostic on the directive's line or the line below, and is never
\* cleared; no unused report exists before every function is checked.
C21_UnusedIffNothingWithheld ==
    /\ [](UnusedWhenDone /\ UnusedOnlyAtEnd)
    /\ [][MarksStep]_vars

C21_Witness ==
    /\ Done
    /\ shape.fam = "lines"
    /\ shape.copy = "above"
    /\ shape.stmt = "plain"
    /\ shape.lines = {TermPos[1] - 2, TermPos[1], TermPos[1] + 1}
    /\ DirectiveOn(TermPos[1])
    /\ ignoreMap[TermPos[1]] /\ ignoreMap[TermPos[1] - 2]
    /\ Reported(DirectivePos(TermPos[1] + 1), UnusedIgnore)
    /\ ~Reported(DirectivePos(TermPos[1]), UnusedIgnore)
    /\ ~Reported(DirectivePos(TermPos[1] - 2), UnusedIgnore)
    /\ diags = <<[pos |-> DirectivePos(TermPos[1] + 1), kind |-> UnusedIgnore, name |-> ""]>>

\* the directive lines a step marks as used
NewMarks == {l \in DOMAIN ignoreMap : ~ignoreMap[l] /\ ignoreMap'[l]}

\* C30: the check of a function with one due diagnostic marks at most one
\* directive; with directives on L and L - 1 the diagnostic due on L marks
\* the directive on L, and the directive on L - 1 is marked exactly when a
\* diagnostic is due on L - 1, and is reported unused otherwise.
C30_OneMarkPerDiagnostic ==
    /\ [][\A l, k \in NewMarks : l = k]_vars
    /\ []((Done /\ TermPos \in DuePositions
                /\ DirectiveOn(TermPos[1]) /\ DirectiveOn(TermPos[1] - 1))
             => /\ ignoreMap[TermPos[1]]
                /\ ignoreMap[TermPos[1] - 1] <=> AbovePos \in DuePositions
                /\ Reported(DirectivePos(TermPos[1] - 1), UnusedIgnore)
                      <=> AbovePos \notin DuePositions
                /\ ~Reported(DirectivePos(TermPos[1]), UnusedIgnore))

C30_Witness ==
    /\ Done
    /\ shape.fam = "lines"
    /\ shape.copy = "none"
    /\ shape.stmt = "log.Print"
    /\ shape.lines = {TermPos[1] - 1, TermPos[1]}
    /\ DirectiveOn(TermPos[1]) /\ DirectiveOn(TermPos[1] - 1)
    /\ ignoreMap[TermPos[1]] /\ ~ignoreMap[TermPos[1] - 1]
    /\ diags = <<[pos |-> DirectivePos(TermPos[1] - 1), kind |-> UnusedIgnore, name |-> ""]>>

\* the check of fn alone: a Checker of its own on the unmarked directives
Alone(fn) ==
    CheckFunction([ctxName |-> funcCtx[fn], reported |-> {}, diags |-> <<>>, traced |-> {},
                   ignoreMap |-> [l \in DOMAIN ignoreMap |-> FALSE], crashed |-> FALSE],
                  fn)

\* the functions RunSSA checks
Checked == {fn \in DOMAIN funcCtx : Fn(fn).file \notin prog.skipFiles}

\* C26: the set of diagnostics of a finished pass is the union of what the
\* check of each function alone reports, and the unused reports of the
\* directives no function alone marks, whatever the order of the functions.
C26_OrderIndependent ==
    Done =>
        SeqToSet(diags)
          = UNION {SeqToSet(Alone(fn).diags) : fn \in Checked}
            \cup {[pos |-> DirectivePos(l), kind |-> UnusedIgnore, name |-> ""] :
                     l \in {k \in DOMAIN ignoreMap : \A fn \in Checked : ~Alone(fn).ignoreMap[k]}}

\* G was checked before F, and both were reported
C26_Witness ==
    /\ Done
    /\ shape.fam = "lines"
    /\ shape.copy = "above"
    /\ shape.lines = {TermPos[1] + 1}
    /\ DirectiveOn(TermPos[1] + 1)
    /\ diags = <<[pos |-> AbovePos, kind |-> MissingPropagation, name |-> "ctx"],
                 [pos |-> TermPos, kind |-> MissingPropagation, name |-> "ctx"],
                 [pos |-> DirectivePos(TermPos[1] + 1), kind |-> UnusedIgnore, name |-> ""]>>

\* every backward chain of v ends in the Phi target: v originates from no
\* value other than target
RECURSIVE LeadsOnlyTo(_, _, _)
LeadsOnlyTo(v, target, seen) ==
    IF v = target \/ v \in seen THEN TRUE
    ELSE CASE Node(v).kind = "Call" ->
                /\ Len(Node(v).args) > 0
                /\ LeadsOnlyTo(Node(v).args[1], target, seen \cup {v})
           [] Node(v).kind = "Phi" ->
                /\ Node(v).edges # <<>>
                /\ \A i \in 1..Len(Node(v).edges) :
                      LeadsOnlyTo(Node(v).edges[i], target, seen \cup {v})
           [] OTHER ->
                /\ unwrapInner(v) # 0
                /\ LeadsOnlyTo(unwrapInner(v), target, seen \cup {v})

\* C23: an edge of a Phi is passed over as a back-edge only when each of
\* its backward chains ends in that Phi; the call on the Phi of a loop body
\* that may hold a fresh Event without ctx is not passed over, so the Phi
\* of the loop has no ctx and the terminator is reported.
C23_BackEdgeOnlyToJoin ==
    /\ \A v \in PhiNodes : \A i \in 1..Len(Node(v).edges) :
          edgeLeadsTo(Node(v).edges[i], v, {}) => LeadsOnlyTo(Node(v).edges[i], v, {})
    /\ (Done /\ shape.fam = "loop" /\ "nested" \in SeqToSet(shape.edges))
          => (Resolved(TermPos, FALSE) /\ ReportedAs(TermPos, MissingPropagation, "ctx"))

\* the converse, and the loops without a Phi in the body: an edge is passed
\* over exactly when each of its backward chains ends in the Phi
BackEdgeLawOfPlainLoops ==
    /\ \A v \in PhiNodes : \A i \in 1..Len(Node(v).edges) :
          LeadsOnlyTo(Node(v).edges[i], v, {}) => edgeLeadsTo(Node(v).edges[i], v, {})
    /\ shape.fam = "loop" /\ SeqToSet(shape.edges) \cap {"nested", "nestedCtx"} = {}
          => \A v \in PhiNodes : \A i \in 1..Len(Node(v).edges) :
                edgeLeadsTo(Node(v).edges[i], v, {}) => LeadsOnlyTo(Node(v).edges[i], v, {})

ClosureInvocations == {v \in LiteralCalls : Node(Node(v).value).kind = "MakeClosure"}

\* C24: the edges of a Phi, the values stored to one address and the
\* returns of an invoked literal are each traced on a copy of the visited
\* set of the caller: the group leaves that set as it was, and its answer is
\* the conjunction of the answers each member gets when it is traced alone
\* on that set, so a value two members share is unvisited for both.
C24_SiblingsIsolated ==
    \A t \in Tracers :
        /\ \A v \in PhiNodes :
              /\ tracePhi(v, {v}, t).vis = {v}
              /\ tracePhi(v, {v}, t).r
                    <=> /\ Eligible(v) # {}
                        /\ \A i \in Eligible(v) : traceValue(Node(v).edges[i], t, {v}).r
        /\ \A v \in Loads \cup Allocs :
              LET Group(vals) ==
                      /\ traceAllStoredValues(vals, {v}, t).vis = {v}
                      /\ traceAllStoredValues(vals, {v}, t).r
                            <=> \A i \in 1..Len(vals) : traceValue(vals[i], t, {v}).r
              IN  Group(findAllStoredValues(AddressOf(v)).vals)
        /\ \A v \in ClosureInvocations :
              /\ traceIIFEReturns(Node(v).callee, {v}, t).vis = {v}
              /\ RoleTyped(Node(v).callee)
                    => (traceIIFEReturns(Node(v).callee, {v}, t).r
                          <=> /\ ReturnedValues(Node(v).callee) # {}
                              /\ \A r \in ReturnedValues(Node(v).callee) :
                                    traceValue(r, t, {v}).r)

\* both edges are calls on one Event from zerolog.Ctx(ctx): both find it
\* unvisited, the Phi has ctx and nothing is reported
C24_Witness ==
    /\ Done
    /\ shape.fam = "phi"
    /\ shape.root = "zerolog.Ctx"
    /\ shape.role = "Event"
    /\ shape.edges = <<[on |-> "S", ops |-> <<"Event.Str">>], [on |-> "S", ops |-> <<>>]>>
    /\ \A v \in PhiNodes : tracePhi(v, {v}, tracerEvent).r
    /\ PhiNodes # {}
    /\ Resolved(TermPos, TRUE)
    /\ diags = <<>>


\* The rule table, written by outcome: who answers Found, who hands over to
\* which tracer, and Continue for the rest.
RoleOfTracer(t) ==
    CASE t = tracerEvent -> "Event" [] t = tracerLogger -> "Logger" [] t = tracerContext -> "Context"
StaticCalls == {v \in DOMAIN prog.nodes : Node(v).kind = "Call" /\ Node(v).callee # ""}
RecvOf(v) == Fn(Node(v).callee).recv
IsSetterCall(v) == Fn(Node(v).callee).name = CtxMethod
TableFound(v, t) ==
    \/ /\ IsSetterCall(v)
       /\ \/ t = tracerEvent /\ RecvOf(v) \in {"Event", "Context"}
          \/ t = tracerContext /\ RecvOf(v) = "Context"
    \/ IsCtxFunc(Node(v).callee) /\ t \in {tracerEvent, tracerLogger}
TableToLogger(v, t) ==
    /\ RecvOf(v) = "Logger"
    /\ \/ ReturnsEvent(Node(v).callee) /\ t = tracerEvent
       \/ ReturnsContext(Node(v).callee) /\ t \in {tracerLogger, tracerContext}
TableToContext(v, t) ==
    /\ RecvOf(v) = "Context"
    /\ ReturnsLogger(Node(v).callee)
    /\ t \in {tracerEvent, tracerLogger}
RuleTable(v, t) ==
    IF TableFound(v, t) THEN "Found"
    ELSE IF TableToLogger(v, t) THEN "DelegateLogger"
    ELSE IF TableToContext(v, t) THEN "DelegateContext"
    ELSE "Continue"
OutcomeOf(res, v) ==
    IF res.found THEN "Found"
    ELSE IF res.delegate /\ res.delegateTo = tracerLogger /\ res.delegateVal = Node(v).args[1]
    THEN "DelegateLogger"
    ELSE IF res.delegate /\ res.delegateTo = tracerContext /\ res.delegateVal = Node(v).args[1]
    THEN "DelegateContext"
    ELSE IF res.delegate THEN "DelegateOther"
    ELSE "Continue"

SameCell(a, b) ==
    \/ a = b
    \/ /\ Node(a).kind = "FieldAddr" /\ Node(b).kind = "FieldAddr"
       /\ Node(a).x = Node(b).x /\ Node(a).field = Node(b).field
    \/ /\ Node(a).kind = "IndexAddr" /\ Node(b).kind = "IndexAddr"
       /\ Node(a).x = Node(b).x
       /\ Node(Node(a).index).kind = "Const" /\ Node(Node(b).index).kind = "Const"
       /\ Node(Node(a).index).cval = Node(Node(b).index).cval
Addresses == {v \in 1..Len(prog.nodes) : Node(v).kind \in {"Alloc", "FieldAddr", "IndexAddr"}}

\* the Event the terminator at pos is called on
BuilderAt(pos) ==
    LET ins == CHOOSE i \in InstrsOf("F", "Call") : i.pos = pos
    IN  Node(ins.node).args[1]

\* what the stores to the cell itself say: at least one, and all with ctx
CellHasCtx == shape.stores # <<>> /\ <<"Logger.Info">> \notin SeqToSet(shape.stores)

\* C27: two addresses match exactly when they are the same value, or field
\* addresses of one base and one field, or index addresses of one base and
\* one constant index; matching is reflexive and symmetric; the values a
\* load is resolved from are exactly those stored to matching addresses;
\* whatever is stored to the other cell of the holder, before or after, the
\* load of a cell has ctx exactly when the cell is stored to and every value
\* stored to it has ctx, and the terminator is reported exactly when not.
C27_StructuralAddresses ==
    /\ \A a \in Addresses : \A b \in Addresses :
          /\ addressesMatch(a, a)
          /\ addressesMatch(a, b) <=> addressesMatch(b, a)
          /\ addressesMatch(a, b) <=> SameCell(a, b)
    /\ \A v \in Loads :
          SeqToSet(findAllStoredValues(AddressOf(v)).vals)
              = {ins.val : ins \in {i \in InstrsOf("F", "Store") : SameCell(i.addr, AddressOf(v))}}
    /\ traceValue(BuilderAt(TermPos), tracerEvent, {}).r <=> CellHasCtx
    /\ Done => (Reported(TermPos, MissingPropagation) <=> ~CellHasCtx)

\* every store to the cell has ctx, the store to the other cell of the same
\* holder has none, and the terminator on the cell is not reported
C27_Witness ==
    /\ Done
    /\ shape.fam = "cell"
    /\ CellHasCtx
    /\ shape.other = <<"Logger.Info">>
    /\ Resolved(TermPos, TRUE)
    /\ ~Reported(TermPos, MissingPropagation)


\* the values one step back from v on the ways the trace can take: the
\* arguments of a call and the returns of an invoked closure, the edges of a
\* Phi, the operand of a load or wrapper, the values stored to the address
\* of a load or to an Alloc, the bindings of a free variable
AllInstrs(op) == UNION {InstrsOf(f, op) : f \in DOMAIN prog.funcs}
Operands(v) ==
    LET n == Node(v)
        StoredTo(a) == {ins.val : ins \in {i \in AllInstrs("Store") : addressesMatch(i.addr, a)}}
    IN  (  SeqToSet(n.args) \cup SeqToSet(n.edges) \cup {n.x}
        \cup (IF n.kind = "Call" /\ n.value # 0 /\ n.callee # ""
              THEN UNION {SeqToSet(ins.results) : ins \in InstrsOf(n.callee, "Return")}
              ELSE {})
        \cup (IF n.kind = "UnOp" /\ n.x # 0 THEN StoredTo(n.x) ELSE {})
        \cup (IF n.kind = "Alloc" THEN StoredTo(v) ELSE {})
        \cup (IF n.kind = "FreeVar"
              THEN UNION {SeqToSet(Node(ins.node).bindings) :
                             ins \in {i \in AllInstrs("MakeClosure") :
                                         Node(i.node).fn = n.parent}}
              ELSE {}))
        \ {0}

\* everything backward-reachable from the values of S
RECURSIVE BackReach(_, _)
BackReach(S, seen) ==
    IF S \subseteq seen THEN seen
    ELSE BackReach(UNION {Operands(v) : v \in S \ seen}, seen \cup S)

\* the calls some tracer answers Found for
FoundCalls == {c \in StaticCalls : \E t \in Tracers : TableFound(c, t)}

\* C28: a value resolves true, under any role, only if a call that some
\* tracer answers Found for (Ctx on an Event or a Context, zerolog.Ctx,
\* log.Ctx) is backward-reachable from it; in a program without such a call
\* every value resolves false under every role; the same for the answers
\* the terminators recorded.
C28_TrueOnlyWithFound ==
    /\ \A v \in 1..Len(prog.nodes) : \A t \in Tracers :
          traceValue(v, t, {}).r => BackReach({v}, {}) \cap FoundCalls # {}
    /\ FoundCalls = {}
          => \A v \in 1..Len(prog.nodes) : \A t \in Tracers : ~traceValue(v, t, {}).r
    /\ \A q \in traced : q.r => BackReach({q.v}, {}) \cap FoundCalls # {}

\* a terminator on a value that is no call resolved true, a Found call
\* being reachable from it, while another value without one resolves false
C28_Witness ==
    /\ Done
    /\ \E q \in traced :
          /\ q.r
          /\ Node(q.v).kind # "Call"
          /\ BackReach({q.v}, {}) \cap FoundCalls # {}
    /\ \E v \in 1..Len(prog.nodes) :
          /\ Node(v).kind \in {"Call", "Phi", "UnOp", "Alloc"}
          /\ BackReach({v}, {}) \cap FoundCalls = {}
          /\ \A t \in Tracers : ~traceValue(v, t, {}).r


\* the second group really is the first in another order
Reordered ==
    \E i \in 1..Len(shape.perm) :
        (shape.stores \o shape.edges)[i] # (shape.stores \o shape.edges)[shape.perm[i]]

\* the second Phi has the edges of the first in the order perm (a call on
\* the Phi for a call on the Phi), the second slot the stored values of the
\* first in the order perm
TwinsArePermutations ==
    LET b1 == BuilderAt(TermPos)
        b2 == BuilderAt(AbovePos)
        Vals(l) == findAllStoredValues(Node(l).x).vals
    IN  IF shape.kind = "join"
        THEN /\ b1 # b2 /\ Node(b2).kind = "Phi"
             /\ Len(Node(b2).edges) = Len(shape.edges)
             /\ \A i \in 1..Len(shape.edges) :
                   IF shape.edges[shape.perm[i]] = "back"
                   THEN /\ Node(Node(b2).edges[i]).args[1] = b2
                        /\ Node(Node(b1).edges[shape.perm[i]]).args[1] = b1
                   ELSE Node(b2).edges[i] = Node(b1).edges[shape.perm[i]]
        ELSE /\ b1 # b2 /\ Node(b2).kind = "UnOp"
             /\ ~addressesMatch(Node(b1).x, Node(b2).x)
             /\ Len(Vals(b1)) = Len(shape.stores)
             /\ Vals(b2) = [i \in 1..Len(shape.perm) |-> Vals(b1)[shape.perm[i]]]

\* C29: a Phi and the Phi with the same edges in another order resolve
\* alike under every role, and so do a slot and the slot stored the same
\* values in another order; their terminators are reported together or not
\* at all.
C29_OrderOfEdgesAndStores ==
    /\ \A t \in Tracers :
          traceValue(BuilderAt(TermPos), t, {}).r = traceValue(BuilderAt(AbovePos), t, {}).r
    /\ Done => (Reported(TermPos, MissingPropagation) <=> Reported(AbovePos, MissingPropagation))

\* a group with ctx in its first member and none in a later one, and its
\* reordering that begins with the member without ctx: both are reported
C29_Witness ==
    /\ Done
    /\ shape.fam = "perm"
    /\ Reordered
    /\ \/ /\ shape.kind = "join"
          /\ shape.edges[1] = "ctx"
          /\ shape.edges[shape.perm[1]] = "plain"
       \/ /\ shape.kind = "stores"
          /\ shape.stores[1] = <<"Logger.Info", "Event.Ctx">>
          /\ shape.stores[shape.perm[1]] = <<"Logger.Info">>
    /\ Reported(TermPos, MissingPropagation)
    /\ Reported(AbovePos, MissingPropagation)

====
